---- MODULE Spec2Model ----
(***************************************************************************)
(* snap-plan: the event time-normalization pipeline.                       *)
(*                                                                         *)
(*   - the Timezone Projector (src/src/lib/dateUtils.ts),                  *)
(*   - parseWithAI and fallbackHeuristic (src/unnamed/part_001),           *)
(*   - the edit modal (src/src/components/EventEditModal.tsx).             *)
(*                                                                         *)
(* Representation.  A JavaScript Date is a record [valid, t, ms]: t is the *)
(* number of whole minutes since 1970-01-01T00:00Z and ms the milliseconds *)
(* within that minute (0..59999); valid = FALSE is the Invalid Date.  A    *)
(* timestamp string is a record of its fields (Timestamp strings below):   *)
(* two strings are byte-identical iff their records are equal.  A text is  *)
(* a tuple of one-character strings, and the regular expressions of the    *)
(* source are matched on it character by character.                        *)
(*                                                                         *)
(* Platform.  Intl.DateTimeFormat is modelled with hour cycle h23 (local   *)
(* midnight is hour 0) and with the IANA rules of the zones in Zones.      *)
(***************************************************************************)
EXTENDS Integers, Sequences, FiniteSets, TLC

VARIABLES
    pc,          \* Timezone Projector harness: "in", "utc", "local"
    pDate,       \* its input date    [year, month, day]
    pTime,       \* its input time    [hours, minutes]
    pZone,       \* its input timezone name
    pInstant,    \* result of createDateFromTimezone
    pBack,       \* result of getDateComponentsInTimezone on pInstant
    callPc,      \* parseWithAI: "idle", "start" (awaiting /api/config),
                 \*   "call" (awaiting /api/gemini), "done" (promise resolved)
    input,       \* its argument: [kind |-> "text" or "image", text]
    now,         \* the clock (new Date()) while the call runs
    runtimeZone, \* the local timezone of the runtime
    aiJson,      \* the JSON object parsed from the Gemini response
    result,      \* the ParseResult the promise resolved with
    mOpen,       \* EventEditModal: is it mounted on an event
    mEvent,      \* its event prop
    editedEvent, \* its state: editedEvent
    mForm,       \* its state: startDate, startTime, endDate, endTime, allDay
    displayTimezone, \* its state: displayTimezone
    tzInput,     \* the value last typed into its timezone field, and whether
                 \*   handling it raised an error: [value, raised]
    saved,       \* what onSave received: [called, event]
    bulkPc,      \* handleBulkUpload: "idle", "loop" (before an iteration),
                 \*   "await" (awaiting parseWithAI(file)), "done"
    bulkFiles,   \* its argument: files.length
    bulkIndex,   \* its loop variable i (0-based)
    allEvents,   \* its local allEvents
    allParseResults, \* its local allParseResults
    calRequest,  \* createCalendarEvent: the body of the request it sent
    peerPc,      \* a second parseWithAI call running beside the first: its
                 \*   position, as callPc
    peerInput,   \* its argument
    peerText,    \* its local extractedText
    peerJson,    \* the JSON object parsed from its Gemini response
    peerResult,  \* the ParseResult its promise resolved with
    proxyPc,     \* /api/gemini handler: "idle", "loop" (before an upstream
                 \*   call), "done" (response sent)
    proxyModels, \* its uniqueModels
    proxyAt,     \* its loop position <<index in endpointsToTry, index in uniqueModels>>
    proxyResp,   \* its resp: the status of the last upstream answer, 0 for null
    proxyCalls,  \* the upstream calls made, in order: <<endpoint, model>>
    proxyAuthAt, \* the number of the first call answered 401 or 403, 0 if none,
                 \*   and that status: [call, status]
    proxyReply,  \* the status sent to the client, 0 while none is sent
    limitClock,  \* rate limiter: Date.now(), in ms
    limitRecord, \* its rateLimitStore entry of the key: [present, count, resetAt,
                 \*   expiresAt]
    limitReply   \* what the middleware answered to the last request of the
                 \*   key: [status, remaining, resetAt, retryAfter]

projVars == <<pc, pDate, pTime, pZone, pInstant, pBack>>
callVars == <<callPc, input, now, runtimeZone, aiJson, result>>
modalVars == <<mOpen, mEvent, editedEvent, mForm, displayTimezone, tzInput, saved>>
bulkVars == <<bulkPc, bulkFiles, bulkIndex, allEvents, allParseResults>>

peerVars == <<peerPc, peerInput, peerText, peerJson, peerResult>>

proxyVars == <<proxyPc, proxyModels, proxyAt, proxyResp, proxyCalls, proxyAuthAt, proxyReply>>

limitVars == <<limitClock, limitRecord, limitReply>>

extraVars == <<calRequest, peerVars, proxyVars, limitVars>>

vars == <<projVars, callVars, modalVars, bulkVars, extraVars>>

-----------------------------------------------------------------------------
(* Calendar arithmetic of the platform (ECMAScript Date, proleptic         *)
(* Gregorian calendar).                                                    *)

MinutesPerHour == 60
HoursPerDay == 24
MinutesPerDay == 1440
MsPerMinute == 60000

IsLeap(y) == (y % 4 = 0 /\ y % 100 # 0) \/ y % 400 = 0

DaysInMonth(y, m) ==
    IF m = 2 THEN (IF IsLeap(y) THEN 29 ELSE 28)
    ELSE IF m \in {4, 6, 9, 11} THEN 30 ELSE 31

\* Days from 1970-01-01 to the civil date y-m-d (m in 1..12), ECMAScript MakeDay.
DaysFromCivil(y, m, d) ==
    LET yy  == IF m <= 2 THEN y - 1 ELSE y
        era == yy \div 400
        yoe == yy - era * 400
        mp  == (m + 9) % 12
        doy == (153 * mp + 2) \div 5 + d - 1
        doe == yoe * 365 + yoe \div 4 - yoe \div 100 + doy
    IN  era * 146097 + doe - 719468

\* The civil date of day number z (inverse of DaysFromCivil).
CivilFromDays(z) ==
    LET zz  == z + 719468
        era == zz \div 146097
        doe == zz - era * 146097
        yoe == (doe - doe \div 1460 + doe \div 36524 - doe \div 146096) \div 365
        doy == doe - (365 * yoe + yoe \div 4 - yoe \div 100)
        mp  == (5 * doy + 2) \div 153
        d   == doy - (153 * mp + 2) \div 5 + 1
        m   == IF mp < 10 THEN mp + 3 ELSE mp - 9
        y   == yoe + era * 400 + (IF m <= 2 THEN 1 ELSE 0)
    IN  [year |-> y, month |-> m, day |-> d]

\* Day of the week of day number z, 0 = Sunday (1970-01-01 was a Thursday).
WeekDay(z) == (z + 4) % 7

\* Day number of the n-th Sunday (n >= 1) of month m of year y.
NthSunday(y, m, n) ==
    LET first == DaysFromCivil(y, m, 1)
    IN  first + ((7 - WeekDay(first)) % 7) + 7 * (n - 1)

-----------------------------------------------------------------------------
(* Dates.                                                                  *)

InvalidDate == [valid |-> FALSE, t |-> 0, ms |-> 0]

MkDate(t, ms) == [valid |-> TRUE, t |-> t, ms |-> ms]

\* date.getTime() + n minutes, as in new Date(d.getTime() + n * 60 * 1000)
AddMinutes(d, n) == IF d.valid THEN MkDate(d.t + n, d.ms) ELSE InvalidDate

\* Evaluation order: e is evaluated once and F applied to its value (a
\* const binding of the source: const x = e; ... x ... x ...).
Let(e, F(_)) == CHOOSE r \in {F(x) : x \in {e}} : TRUE

\* Minutes since the epoch of the UTC wall-clock y-m-d h:mi.
UtcMinutes(y, m, d, h, mi) ==
    (DaysFromCivil(y, m, d) * HoursPerDay + h) * MinutesPerHour + mi

\* UTC fields of a minute count.
UtcFields(t) ==
    Let(CivilFromDays(t \div MinutesPerDay), LAMBDA c :
        [year |-> c.year, month |-> c.month, day |-> c.day,
         hour |-> (t % MinutesPerDay) \div MinutesPerHour,
         minute |-> t % MinutesPerHour])

-----------------------------------------------------------------------------
(* Time zones known to the platform (IANA rules in force since 2007).      *)

NewYork == "America/New_York"
LosAngeles == "America/Los_Angeles"
Tokyo == "Asia/Tokyo"
UTCZone == "UTC"

Zones == {NewYork, LosAngeles, Tokyo, UTCZone}

\* Standard-time offset from UTC, in minutes.
StdOffset(tz) ==
    CASE tz = NewYork -> -300
      [] tz = LosAngeles -> -480
      [] tz = Tokyo -> 540
      [] OTHER -> 0

ObservesDST(tz) == tz \in {NewYork, LosAngeles}

\* US daylight time: from 02:00 standard time on the second Sunday of March
\* to 02:00 daylight time on the first Sunday of November.
InDST(tz, t) ==
    /\ ObservesDST(tz)
    /\ Let(CivilFromDays(t \div MinutesPerDay).year, LAMBDA y :
           /\ NthSunday(y, 3, 2) * MinutesPerDay + 120 - StdOffset(tz) <= t
           /\ t < NthSunday(y, 11, 1) * MinutesPerDay + 120 - (StdOffset(tz) + 60))

\* Offset from UTC, in minutes, of zone tz at instant t.
UtcOffset(tz, t) == StdOffset(tz) + (IF InDST(tz, t) THEN 60 ELSE 0)

\* The parts Intl.DateTimeFormat('en-US', {timeZone: tz, year, month, day,
\* hour, minute, second, hour12: false}).formatToParts(date) gives, read
\* with parseInt.  The caller checks date.valid and tz \in Zones first: the
\* platform throws a RangeError otherwise.
FormatToParts(date, tz) ==
    Let(UtcFields(date.t + UtcOffset(tz, date.t)), LAMBDA f :
        [year |-> f.year, month |-> f.month, day |-> f.day,
         hour |-> f.hour, minute |-> f.minute, second |-> date.ms \div 1000])

-----------------------------------------------------------------------------
(* dateUtils.ts                                                            *)

\* A thrown exception, and a normally returned value.
Threw == [threw |-> TRUE, date |-> InvalidDate]
Returned(d) == [threw |-> FALSE, date |-> d]

\* new Date(`${y}-${mm}-${dd}T${hh}:${mi}:00Z`): the ISO form is accepted for
\* a calendar date with a time of day up to 24:00.
IsoFieldsValid(y, m, d, h, mi) ==
    /\ y \in 0..9999
    /\ m \in 1..12
    /\ d >= 1 /\ d <= DaysInMonth(y, m)
    /\ mi \in 0..59
    /\ h \in 0..23 \/ (h = 24 /\ mi = 0)

\* createDateFromTimezone(dateStr, timeStr, timezone): the date and time
\* strings are records of the numbers split('-') / split(':') give.
createDateFromTimezone(dateStr, timeStr, timezone) ==
    LET year    == dateStr.year
        month   == dateStr.month
        day     == dateStr.day
        hours   == timeStr.hours
        minutes == timeStr.minutes
    IN  IF ~IsoFieldsValid(year, month, day, hours, minutes)
        THEN Threw      \* testDate is Invalid Date: formatToParts throws
        ELSE IF timezone \notin Zones
        THEN Threw      \* new Intl.DateTimeFormat throws RangeError
        ELSE Let(MkDate(UtcMinutes(year, month, day, hours, minutes), 0), LAMBDA testDate :
             Let(FormatToParts(testDate, timezone), LAMBDA parts :
                 LET tzDay      == parts.day
                     tzHour     == parts.hour
                     tzMinute   == parts.minute
                     hourDiff   == hours - tzHour
                     minuteDiff == minutes - tzMinute
                     dayDiff    == day - tzDay
                     totalDiff  == (hourDiff + dayDiff * 24) * 60 + minuteDiff
                 IN  Returned(AddMinutes(testDate, totalDiff))))

\* getDateComponentsInTimezone(date, timezone) for a valid date and zone.
getDateComponentsInTimezone(date, timezone) ==
    Let(FormatToParts(date, timezone), LAMBDA parts :
        [year |-> parts.year, month |-> parts.month, day |-> parts.day,
         hours |-> parts.hour, minutes |-> parts.minute, seconds |-> parts.second])

-----------------------------------------------------------------------------
(* Timestamp strings.  A string holding a date-time is the record of its   *)
(* fields: "2025-09-17T18:00:00.000Z" is [kind |-> "iso", year |-> 2025,   *)
(* month |-> 9, day |-> 17, hour |-> 18, minute |-> 0, second |-> 0,       *)
(* frac |-> TRUE, milli |-> 0, zone |-> "Z"]; frac tells whether the       *)
(* ".sss" part is written; zone is "Z", "" (no zone) or a numeric offset   *)
(* such as "-04:00".  kind "text" is a string that holds no date-time      *)
(* ("tomorrow evening"), kind "none" the value undefined.                  *)

NoString == [kind |-> "none", year |-> 0, month |-> 0, day |-> 0, hour |-> 0,
             minute |-> 0, second |-> 0, frac |-> FALSE, milli |-> 0, zone |-> ""]

TextString == [NoString EXCEPT !.kind = "text"]

IsoString(y, mo, d, h, mi, s, zone) ==
    [kind |-> "iso", year |-> y, month |-> mo, day |-> d, hour |-> h,
     minute |-> mi, second |-> s, frac |-> FALSE, milli |-> 0, zone |-> zone]

\* Minutes east of UTC named by a numeric offset suffix.
OffsetSuffixes == {"-04:00", "+09:00"}
SuffixMinutes(zone) ==
    CASE zone = "-04:00" -> -240
      [] zone = "+09:00" -> 540
      [] OTHER -> 0

\* str.endsWith('Z')
EndsWithZ(str) == str.kind = "iso" /\ str.zone = "Z"

\* str.match(/[+-]\d{2}:\d{2}$/)
HasOffsetSuffix(str) == str.kind = "iso" /\ str.zone \in OffsetSuffixes

\* str.slice(0, -1) of a string ending in 'Z'
StripZ(str) == [str EXCEPT !.zone = ""]

\* date.toISOString() of a valid date: YYYY-MM-DDTHH:mm:ss.sssZ
toISOString(date) ==
    Let(UtcFields(date.t), LAMBDA f :
        [kind |-> "iso", year |-> f.year, month |-> f.month, day |-> f.day,
         hour |-> f.hour, minute |-> f.minute, second |-> date.ms \div 1000,
         frac |-> TRUE, milli |-> date.ms % 1000, zone |-> "Z"])

\* The instant a local wall-clock reading (local minutes since the epoch)
\* denotes in zone tz.
LocalToUtc(tz, local) ==
    Let(local - UtcOffset(tz, local - StdOffset(tz)), LAMBDA guess :
        local - UtcOffset(tz, guess))

\* new Date(str): a string with a zone designator is an absolute instant, a
\* date-time without one is local time of the runtime; anything else is the
\* Invalid Date.
NewDate(str, zone) ==
    IF str.kind # "iso"
       \/ ~IsoFieldsValid(str.year, str.month, str.day, str.hour, str.minute)
       \/ str.second \notin 0..59
    THEN InvalidDate
    ELSE Let(UtcMinutes(str.year, str.month, str.day, str.hour, str.minute), LAMBDA wall :
             MkDate(IF str.zone = "Z" THEN wall
                    ELSE IF str.zone \in OffsetSuffixes THEN wall - SuffixMinutes(str.zone)
                    ELSE LocalToUtc(zone, wall),
                    str.second * 1000 + str.milli))

\* a <= b on valid dates (newEnd <= newStart)
DateLeq(a, b) == a.t < b.t \/ (a.t = b.t /\ a.ms <= b.ms)

\* new Date(start.getTime() + (end.getTime() - begin.getTime()))
AddDuration(start, begin, end) ==
    LET ms == start.ms + (end.ms - begin.ms)
    IN  MkDate(start.t + (end.t - begin.t) + ms \div MsPerMinute, ms % MsPerMinute)

-----------------------------------------------------------------------------
(* Texts and regular expressions.  A text is a tuple of characters, each a *)
(* one-character string; "<endash>" and "<emdash>" stand for U+2013 and    *)
(* U+2014.  A regular expression is a tuple of elements:                    *)
(*   Digits(lo, hi)  (\d{lo,hi}), captured, greedy with backtracking;       *)
(*   Spaces          \s*                                                    *)
(*   Class(S)        one character of S                                     *)
(*   Lit(w)          the word w          Alt(ws)  (w1|w2|...), captured     *)
(*   Boundary        \b                                                     *)
(* All letters are compared case-insensitively (the /i flag).               *)

UpperCase == <<"A","B","C","D","E","F","G","H","I","J","K","L","M",
               "N","O","P","Q","R","S","T","U","V","W","X","Y","Z">>
LowerCase == <<"a","b","c","d","e","f","g","h","i","j","k","l","m",
               "n","o","p","q","r","s","t","u","v","w","x","y","z">>
DigitChars == <<"0","1","2","3","4","5","6","7","8","9">>

Lower(c) ==
    IF \E k \in 1..26 : UpperCase[k] = c
    THEN LowerCase[CHOOSE k \in 1..26 : UpperCase[k] = c]
    ELSE c

IsDigit(c) == \E k \in 1..10 : DigitChars[k] = c
DigitVal(c) == (CHOOSE k \in 1..10 : DigitChars[k] = c) - 1
IsSpace(c) == c \in {" ", "\n", "\t"}
IsWordChar(c) == IsDigit(c) \/ c = "_" \/ \E k \in 1..26 : LowerCase[k] = Lower(c)

\* parseInt of a run of digits
RECURSIVE ParseInt(_)
ParseInt(ds) ==
    IF ds = <<>> THEN 0
    ELSE 10 * ParseInt(SubSeq(ds, 1, Len(ds) - 1)) + DigitVal(ds[Len(ds)])

Digits(lo, hi) == [k |-> "d", lo |-> lo, hi |-> hi, set |-> {}, opts |-> <<>>, cap |-> TRUE]
Spaces         == [k |-> "s", lo |-> 0, hi |-> 0, set |-> {}, opts |-> <<>>, cap |-> FALSE]
Class(S)       == [k |-> "c", lo |-> 0, hi |-> 0, set |-> S, opts |-> <<>>, cap |-> FALSE]
Lit(w)         == [k |-> "a", lo |-> 0, hi |-> 0, set |-> {}, opts |-> <<w>>, cap |-> FALSE]
Alt(ws)        == [k |-> "a", lo |-> 0, hi |-> 0, set |-> {}, opts |-> ws, cap |-> TRUE]
Boundary       == [k |-> "b", lo |-> 0, hi |-> 0, set |-> {}, opts |-> <<>>, cap |-> FALSE]

NoMatch == [ok |-> FALSE, start |-> 0, end |-> 0, caps |-> <<>>]

\* Number of digits at txt[i..], at most hi.
RECURSIVE DigitRun(_, _, _)
DigitRun(txt, i, hi) ==
    IF hi = 0 \/ i > Len(txt) \/ ~IsDigit(txt[i]) THEN 0
    ELSE 1 + DigitRun(txt, i + 1, hi - 1)

\* First index >= i that holds no white space.
RECURSIVE SkipSpaces(_, _)
SkipSpaces(txt, i) ==
    IF i <= Len(txt) /\ IsSpace(txt[i]) THEN SkipSpaces(txt, i + 1) ELSE i

\* Does the word w stand at txt[i..]?
WordAt(txt, i, w) ==
    /\ i + Len(w) - 1 <= Len(txt)
    /\ \A j \in 1..Len(w) : Lower(txt[i + j - 1]) = w[j]

WordBoundaryAt(txt, i) ==
    LET before == i > 1 /\ i - 1 <= Len(txt) /\ IsWordChar(txt[i - 1])
        after  == i <= Len(txt) /\ IsWordChar(txt[i])
    IN  before # after

\* The match of elements k.. of pat at position i of txt: [ok, start, end,
\* caps], end the index after the match, caps the captured groups.
RECURSIVE MatchAt(_, _, _, _)
RECURSIVE TryDigits(_, _, _, _, _)
RECURSIVE TryAlt(_, _, _, _, _)

TryDigits(pat, k, txt, i, n) ==
    IF n < pat[k].lo THEN NoMatch
    ELSE Let(MatchAt(pat, k + 1, txt, i + n), LAMBDA r :
             IF r.ok THEN [r EXCEPT !.caps = <<SubSeq(txt, i, i + n - 1)>> \o r.caps]
             ELSE TryDigits(pat, k, txt, i, n - 1))

TryAlt(pat, k, txt, i, o) ==
    IF o > Len(pat[k].opts) THEN NoMatch
    ELSE IF ~WordAt(txt, i, pat[k].opts[o]) THEN TryAlt(pat, k, txt, i, o + 1)
    ELSE Let(MatchAt(pat, k + 1, txt, i + Len(pat[k].opts[o])), LAMBDA r :
             IF r.ok
             THEN (IF pat[k].cap THEN [r EXCEPT !.caps = <<pat[k].opts[o]>> \o r.caps] ELSE r)
             ELSE TryAlt(pat, k, txt, i, o + 1))

MatchAt(pat, k, txt, i) ==
    IF k > Len(pat) THEN [ok |-> TRUE, start |-> 0, end |-> i, caps |-> <<>>]
    ELSE CASE pat[k].k = "d" -> TryDigits(pat, k, txt, i, DigitRun(txt, i, pat[k].hi))
           [] pat[k].k = "s" -> MatchAt(pat, k + 1, txt, SkipSpaces(txt, i))
           [] pat[k].k = "c" -> IF i <= Len(txt) /\ Lower(txt[i]) \in pat[k].set
                                THEN MatchAt(pat, k + 1, txt, i + 1) ELSE NoMatch
           [] pat[k].k = "a" -> TryAlt(pat, k, txt, i, 1)
           [] OTHER          -> IF WordBoundaryAt(txt, i)
                                THEN MatchAt(pat, k + 1, txt, i) ELSE NoMatch

\* The leftmost match of pat in txt from position i on (str.match(regex)).
RECURSIVE SearchFrom(_, _, _)
SearchFrom(pat, txt, i) ==
    IF i > Len(txt) + 1 THEN NoMatch
    ELSE Let(MatchAt(pat, 1, txt, i), LAMBDA r :
             IF r.ok THEN [r EXCEPT !.start = i] ELSE SearchFrom(pat, txt, i + 1))

Search(pat, txt) == SearchFrom(pat, txt, 1)

\* regex.test(txt)
Test(pat, txt) == Search(pat, txt).ok

\* The matched substring m[0].
MatchedText(txt, m) == SubSeq(txt, m.start, m.end - 1)

-----------------------------------------------------------------------------
(* parseWithAI: the regular expressions of the post-processing.            *)

D12   == Digits(1, 2)
D2    == Digits(2, 2)
Dash  == Class({"-", "<endash>", "<emdash>"})
Colon == Class({":"})
am    == <<"a", "m">>
pm    == <<"p", "m">>
AmPm  == Alt(<<am, pm>>)

\* /\b(19|20)\d{2}\b/
YearRegex == <<Boundary, Alt(<< <<"1", "9">>, <<"2", "0">> >>), D2, Boundary>>

\* allDayPatterns
allDayPatterns ==
    << <<Lit(<<"a","l","l">>), Spaces, Lit(<<"d","a","y">>)>>,
       <<Lit(<<"a","l","l","-","d","a","y">>)>>,
       <<Lit(<<"a","l","l">>), Spaces, Lit(<<"d","a","y">>), Spaces, Lit(<<"e","v","e","n","t">>)>>,
       <<Lit(<<"f","u","l","l">>), Spaces, Lit(<<"d","a","y">>)>>,
       <<Lit(<<"e","n","t","i","r","e">>), Spaces, Lit(<<"d","a","y">>)>>,
       <<Lit(<<"w","h","o","l","e">>), Spaces, Lit(<<"d","a","y">>)>> >>

\* Variant: only the hyphenated pattern is tried.
hasAllDayTextHyphenOnly(rawText) == Test(allDayPatterns[2], rawText)

\* allDayPatterns.some(pattern => pattern.test(rawText))
hasAllDayText(rawText) ==
    \E k \in 1..Len(allDayPatterns) : Test(allDayPatterns[k], rawText)

\* /(\d{1,2})\s*(am|pm|AM|PM|:\d{2})/i.test(rawText): one regular expression
\* per alternative of the group.
hasTimeInText(rawText) ==
    \/ Test(<<D12, Spaces, Lit(am)>>, rawText)
    \/ Test(<<D12, Spaces, Lit(pm)>>, rawText)
    \/ Test(<<D12, Spaces, Colon, D2>>, rawText)

\* timePatterns, in the order of the source.  kind names how the groups of
\* the match are read: "both" (one meridiem for both ends), "each" (one
\* per end), "mixed" (start with minutes, end without).
TimePattern(regex, hasMinutes, kind) ==
    [regex |-> regex, hasMinutes |-> hasMinutes, kind |-> kind]

timePatterns ==
    << TimePattern(<<D12, Dash, D12, Spaces, Lit(pm)>>, FALSE, "both"),
       TimePattern(<<D12, Dash, D12, Spaces, Lit(am)>>, FALSE, "both"),
       TimePattern(<<D12, Spaces, Dash, Spaces, D12, Spaces, Lit(pm)>>, FALSE, "both"),
       TimePattern(<<D12, Spaces, Dash, Spaces, D12, Spaces, Lit(am)>>, FALSE, "both"),
       TimePattern(<<D12, Spaces, Lit(pm), Spaces, Dash, Spaces, D12, Spaces, Lit(pm)>>,
                   FALSE, "each"),
       TimePattern(<<D12, Spaces, Lit(am), Spaces, Dash, Spaces, D12, Spaces, Lit(am)>>,
                   FALSE, "each"),
       TimePattern(<<D12, Colon, D2, Spaces, Lit(pm), Spaces, Dash, Spaces,
                     D12, Colon, D2, Spaces, Lit(pm)>>, TRUE, "each"),
       TimePattern(<<D12, Colon, D2, Spaces, Lit(am), Spaces, Dash, Spaces,
                     D12, Colon, D2, Spaces, Lit(am)>>, TRUE, "each"),
       TimePattern(<<D12, Colon, D2, Spaces, Dash, Spaces, D12, Colon, D2, Spaces, Lit(pm)>>,
                   TRUE, "both"),
       TimePattern(<<D12, Colon, D2, Spaces, Dash, Spaces, D12, Colon, D2, Spaces, Lit(am)>>,
                   TRUE, "both"),
       TimePattern(<<D12, Colon, D2, Spaces, AmPm, Spaces, Dash, Spaces, D12, Spaces, AmPm>>,
                   TRUE, "mixed") >>

\* The regular expressions the matched substring is read with.
PartsMixed      == <<D12, Colon, D2, Spaces, AmPm, Spaces, Dash, Spaces, D12, Spaces, AmPm>>
PartsMinBoth    == <<D12, Colon, D2, Spaces, Dash, Spaces, D12, Colon, D2, Spaces, AmPm>>
PartsMinEach    == <<D12, Colon, D2, Spaces, AmPm, Spaces, Dash, Spaces,
                     D12, Colon, D2, Spaces, AmPm>>
PartsBothSpaced == <<D12, Spaces, Dash, Spaces, D12, Spaces, AmPm>>
PartsBothTight  == <<D12, Dash, D12, Spaces, AmPm>>
PartsEach       == <<D12, Spaces, AmPm, Spaces, Dash, Spaces, D12, Spaces, AmPm>>

\* Convert to 24-hour: if (period === 'pm' && hour !== 12) hour += 12;
\*                     if (period === 'am' && hour === 12) hour = 0;
To24(hour, period) ==
    IF period = pm /\ hour # 12 THEN hour + 12
    ELSE IF period = am /\ hour = 12 THEN 0
    ELSE hour

NoTimes == [ok |-> FALSE, startHour |-> 0, startMin |-> 0, endHour |-> 0, endMin |-> 0]

Times(sh, sm, eh, em) ==
    [ok |-> TRUE, startHour |-> sh, startMin |-> sm, endHour |-> eh, endMin |-> em]

\* The body of the match loop up to the 24-hour times, for the pattern and
\* the matched substring fullMatch; ok = FALSE is `continue`.
ExtractTimes(pattern, fullMatch) ==
    IF pattern.hasMinutes
    THEN IF pattern.kind = "mixed"
         THEN Let(Search(PartsMixed, fullMatch), LAMBDA parts :
                  IF ~parts.ok THEN NoTimes
                  ELSE Times(To24(ParseInt(parts.caps[1]), parts.caps[3]),
                             ParseInt(parts.caps[2]),
                             To24(ParseInt(parts.caps[4]), parts.caps[5]), 0))
         ELSE IF pattern.kind = "both"
         THEN Let(Search(PartsMinBoth, fullMatch), LAMBDA parts :
                  IF ~parts.ok THEN NoTimes
                  ELSE Times(To24(ParseInt(parts.caps[1]), parts.caps[5]),
                             ParseInt(parts.caps[2]),
                             To24(ParseInt(parts.caps[3]), parts.caps[5]),
                             ParseInt(parts.caps[4])))
         ELSE Let(Search(PartsMinEach, fullMatch), LAMBDA parts :
                  IF ~parts.ok THEN NoTimes
                  ELSE Times(To24(ParseInt(parts.caps[1]), parts.caps[3]),
                             ParseInt(parts.caps[2]),
                             To24(ParseInt(parts.caps[4]), parts.caps[6]),
                             ParseInt(parts.caps[5])))
    ELSE IF pattern.kind = "both"
         THEN Let(Search(PartsBothSpaced, fullMatch), LAMBDA spaced :
              Let(IF spaced.ok THEN spaced ELSE Search(PartsBothTight, fullMatch),
                  LAMBDA parts :
                  IF ~parts.ok THEN NoTimes
                  ELSE Times(To24(ParseInt(parts.caps[1]), parts.caps[3]), 0,
                             To24(ParseInt(parts.caps[2]), parts.caps[3]), 0)))
         ELSE Let(Search(PartsEach, fullMatch), LAMBDA parts :
                  IF ~parts.ok THEN NoTimes
                  ELSE Times(To24(ParseInt(parts.caps[1]), parts.caps[2]), 0,
                             To24(ParseInt(parts.caps[3]), parts.caps[4]), 0))

-----------------------------------------------------------------------------
(* Texts given to the pipeline.                                            *)

\* "September 17th CC 6pm - 9pm"
TxtSept17 ==
    <<"S","e","p","t","e","m","b","e","r"," ","1","7","t","h"," ","C","C",
    " ","6","p","m"," ","-"," ","9","p","m">>
\* "Event on March 5"
TxtMarch5 ==
    <<"E","v","e","n","t"," ","o","n"," ","M","a","r","c","h"," ","5">>
\* "Event 6pm"
TxtEvent6pm ==
    <<"E","v","e","n","t"," ","6","p","m">>
\* "Party 10pm-2am 2025"
TxtLateParty ==
    <<"P","a","r","t","y"," ","1","0","p","m","-","2","a","m"," ","2","0",
    "2","5">>
\* "Gala 8pm–1am 2025"
TxtGala ==
    <<"G","a","l","a"," ","8","p","m","<endash>","1","a","m"," ","2","0",
    "2","5">>
\* "All day fair 6pm-9pm 2025"
TxtAllDayFair ==
    <<"A","l","l"," ","d","a","y"," ","f","a","i","r"," ","6","p","m","-",
    "9","p","m"," ","2","0","2","5">>
\* "Meeting 6pm 2025"
TxtMeeting ==
    <<"M","e","e","t","i","n","g"," ","6","p","m"," ","2","0","2","5">>
\* "Allday sale 6pm 2025"
TxtAllday ==
    <<"A","l","l","d","a","y"," ","s","a","l","e"," ","6","p","m"," ","2",
    "0","2","5">>
\* "Image input"
TxtImageInput ==
    <<"I","m","a","g","e"," ","i","n","p","u","t">>

-----------------------------------------------------------------------------
(* parseWithAI: events, results and the steps of the normalization.        *)
(* A step that can throw gives [threw, ev]; a throw anywhere inside the    *)
(* try block ends in its catch clause (the fallback).                      *)

\* A value of a JSON field that is a number, not a string.
NumberValue == [NoString EXCEPT !.kind = "number"]

\* A ParsedEvent.  timezone "" and allDay "undefined" are absent fields.
Event(title, startISO, endISO, timezone, allDay) ==
    [title |-> title, startISO |-> startISO, endISO |-> endISO,
     timezone |-> timezone, allDay |-> allDay]

Untitled == <<"U","n","t","i","t","l","e","d"," ","E","v","e","n","t">>

TitleMax == 60

\* text.split('\n')[0]
FirstLine(text) ==
    IF \E i \in 1..Len(text) : text[i] = "\n"
    THEN SubSeq(text, 1, (CHOOSE i \in 1..Len(text) :
                              text[i] = "\n" /\ \A j \in 1..(i - 1) : text[j] # "\n") - 1)
    ELSE text

\* s.slice(0, n)
Slice(str, n) == SubSeq(str, 1, IF Len(str) < n THEN Len(str) ELSE n)

DescriptionMax == 500

\* The event of fallbackHeuristic: title, description, startISO and endISO;
\* timezone "" and allDay "undefined" are absent fields.
FallbackEvent(title, description, startISO, endISO) ==
    [title |-> title, description |-> description, startISO |-> startISO,
     endISO |-> endISO, timezone |-> "", allDay |-> "undefined"]

\* Variant: the title is the whole first line.
fallbackHeuristicUncut(text, clock) ==
    LET start == AddMinutes(clock, 60)
        end   == AddMinutes(start, 60)
        first == FirstLine(text)
    IN  << FallbackEvent(IF first # <<>> THEN first ELSE Untitled, Slice(text, DescriptionMax),
                         toISOString(start), toISOString(end)) >>

\* fallbackHeuristic(text), called when the clock reads `clock`
fallbackHeuristic(text, clock) ==
    LET start == AddMinutes(clock, 60)
        end   == AddMinutes(start, 60)
        first == Slice(FirstLine(text), TitleMax)
    IN  << FallbackEvent(IF first # <<>> THEN first ELSE Untitled, Slice(text, DescriptionMax),
                         toISOString(start), toISOString(end)) >>

NoResult == [method |-> "", events |-> <<>>, reason |-> "", extractedText |-> <<>>]

\* Variant: the reason is not handed on.
FallbackWithoutReason(text, clock, reason, extractedText) ==
    [method |-> "fallback", events |-> fallbackHeuristic(text, clock),
     reason |-> "", extractedText |-> extractedText]

Fallback(text, clock, reason, extractedText) ==
    [method |-> "fallback", events |-> fallbackHeuristic(text, clock),
     reason |-> reason, extractedText |-> extractedText]

\* new Date().getFullYear()
getFullYear(date, zone) == FormatToParts(date, zone).year

\* d.setDate(d.getDate() + 1): one calendar day later in the runtime's zone
AddLocalDay(date, zone) ==
    MkDate(LocalToUtc(zone, date.t + UtcOffset(zone, date.t) + MinutesPerDay),
           date.ms)

DateOf(str) == [year |-> str.year, month |-> str.month, day |-> str.day]
TimeOf(str) == [hours |-> str.hour, minutes |-> str.minute]
HM(h, m) == [hours |-> h, minutes |-> m]

\* Lines 397-432 (startISO) and 488-519 (endISO): the AI timestamp iso,
\* interpreted in sourceTimezone, as a UTC string.  The else-if branches of
\* lines 433 and 520 need a falsy sourceTimezone and are never taken.
ConvertTimestamp(iso, sourceTimezone, zone) ==
    LET toConvert == IF sourceTimezone = NewYork /\ EndsWithZ(iso) THEN StripZ(iso) ELSE iso
        asIs      == Let(NewDate(iso, zone), LAMBDA d :
                         IF d.valid THEN toISOString(d) ELSE iso)
    IN  IF EndsWithZ(toConvert) \/ HasOffsetSuffix(toConvert) THEN iso
        ELSE IF toConvert.kind = "iso"
        THEN Let(createDateFromTimezone(DateOf(toConvert), TimeOf(toConvert), sourceTimezone),
                 LAMBDA r : IF r.threw THEN asIs ELSE toISOString(r.date))
        ELSE asIs

Ok(ev) == [threw |-> FALSE, ev |-> ev]
Throws(ev) == [threw |-> TRUE, ev |-> ev]

\* Lines 660-708: year correction.
YearStep(ev, rawText, currentYear, zone) ==
    IF Test(YearRegex, rawText) THEN Ok(ev)
    ELSE Let(NewDate(ev.startISO, zone), LAMBDA startDate :
         Let(NewDate(ev.endISO, zone), LAMBDA endDate :
         LET timezone == IF ev.timezone # "" THEN ev.timezone ELSE NewYork
         IN  IF ~startDate.valid \/ ~endDate.valid \/ timezone \notin Zones THEN Throws(ev)
             ELSE Let(FormatToParts(startDate, timezone), LAMBDA p :
                  Let(createDateFromTimezone([year |-> currentYear, month |-> p.month,
                                              day |-> p.day],
                                             HM(p.hour, p.minute), timezone), LAMBDA newStart :
                      IF newStart.threw THEN Throws(ev)
                      ELSE Ok([ev EXCEPT
                                 !.startISO = toISOString(newStart.date),
                                 !.endISO = toISOString(
                                     AddDuration(newStart.date, startDate, endDate))])))))

\* Lines 710-744: all-day detection.
AllDayStep(ev, rawText, zone) ==
    IF hasAllDayText(rawText) \/ (~hasTimeInText(rawText) /\ ev.allDay # "true")
    THEN Let(NewDate(ev.startISO, zone), LAMBDA startDate :
             IF ~startDate.valid THEN Throws(ev)
             ELSE Let(UtcFields(startDate.t), LAMBDA f :
                  LET dateStr == [year |-> f.year, month |-> f.month, day |-> f.day]
                      newStart == createDateFromTimezone(dateStr, HM(0, 0), NewYork)
                      newEnd   == createDateFromTimezone(dateStr, HM(23, 59), NewYork)
                  IN  Ok([ev EXCEPT !.allDay = "true",
                                    !.startISO = toISOString(newStart.date),
                                    !.endISO = toISOString(newEnd.date)])))
    ELSE Ok(ev)

\* Lines 927-971: the times of a matched range applied to the event;
\* startDate is the start of the event before the loop.
ApplyRange(ev, times, startDate, zone) ==
    LET timezone == IF ev.timezone # "" THEN ev.timezone ELSE NewYork
    IN  IF ~startDate.valid THEN Throws(ev)
        ELSE Let(UtcFields(startDate.t), LAMBDA f :
             LET dateStr == [year |-> f.year, month |-> f.month, day |-> f.day]
             IN  Let(createDateFromTimezone(dateStr, HM(times.startHour, times.startMin),
                                            timezone), LAMBDA newStart :
                 Let(createDateFromTimezone(dateStr, HM(times.endHour, times.endMin),
                                            timezone), LAMBDA newEnd :
                     IF newStart.threw \/ newEnd.threw THEN Throws(ev)
                     ELSE Ok([ev EXCEPT
                                !.startISO = toISOString(newStart.date),
                                !.endISO = toISOString(
                                    IF DateLeq(newEnd.date, newStart.date)
                                    THEN AddLocalDay(newEnd.date, zone)
                                    ELSE newEnd.date),
                                !.timezone = timezone]))))

\* Lines 813-973: the loop over timePatterns from pattern k on.
RECURSIVE RangeLoop(_, _, _, _, _)
RangeLoop(k, ev, rawText, startDate, zone) ==
    IF k > Len(timePatterns) THEN Ok(ev)
    ELSE Let(Search(timePatterns[k].regex, rawText), LAMBDA match :
             IF ~match.ok THEN RangeLoop(k + 1, ev, rawText, startDate, zone)
             ELSE Let(ExtractTimes(timePatterns[k], MatchedText(rawText, match)), LAMBDA times :
                  IF ~times.ok THEN RangeLoop(k + 1, ev, rawText, startDate, zone)
                  ELSE Let(ApplyRange(ev, times, startDate, zone), LAMBDA r :
                           IF r.threw THEN r
                           ELSE RangeLoop(k + 1, r.ev, rawText, startDate, zone))))

\* A range step that substitutes a default range (09:00 to 17:00) when no
\* pattern matches.
DefaultTimes == Times(9, 0, 17, 0)
RangeStepWithDefault(ev, rawText, zone) ==
    Let(NewDate(ev.startISO, zone), LAMBDA startDate :
    Let(RangeLoop(1, ev, rawText, startDate, zone), LAMBDA r :
        IF r.threw \/ r.ev # ev THEN r
        ELSE ApplyRange(ev, DefaultTimes, startDate, zone)))

\* Lines 747-973
RangeStep(ev, rawText, zone) ==
    Let(NewDate(ev.startISO, zone), LAMBDA startDate :
        RangeLoop(1, ev, rawText, startDate, zone))

\* Lines 639-976: the body of parsed.map(...) for one event.
FixEvent(event, rawText, currentYear, zone) ==
    Let(YearStep(event, rawText, currentYear, zone), LAMBDA y :
        IF y.threw THEN y
        ELSE Let(AllDayStep(y.ev, rawText, zone), LAMBDA a :
                 IF a.threw THEN a
                 ELSE RangeStep(a.ev, rawText, zone)))

\* "Image input (local mode not supported for images)"
TxtImageLocal ==
    TxtImageInput \o <<" ","(","l","o","c","a","l"," ","m","o","d","e"," ","n","o","t",
    " ","s","u","p","p","o","r","t","e","d"," ","f","o","r"," ","i","m","a","g","e","s",")">>

-----------------------------------------------------------------------------
(* parseWithAI: the call.                                                  *)

TextInput(text) == [kind |-> "text", text |-> text]
ImageInput == [kind |-> "image", text |-> <<>>]

\* An event object of the AI response: title <<>>, timezone "" and startISO
\* or endISO of kind "none" are absent fields.
Item(title, startISO, endISO, timezone, allDay) ==
    [title |-> title, startISO |-> startISO, endISO |-> endISO,
     timezone |-> timezone, allDay |-> allDay,
     description |-> <<>>, hasFreeFood |-> "undefined", registrationNeeded |-> "undefined"]

NoItem == Item(<<>>, NoString, NoString, "", "undefined")

\* The JSON value of the response: rawText <<>> is an absent rawText,
\* hasEvent = FALSE a value without an event object.
Json(rawText, hasEvent, item) == [rawText |-> rawText, hasEvent |-> hasEvent, item |-> item]

NoJson == Json(<<>>, FALSE, NoItem)

\* typeof input === 'string' ? input : 'Image input'
InputText(in) == IF in.kind = "text" THEN in.text ELSE TxtImageInput

\* extractedText: the input text, undefined (<<>>) for an image
ExtractedText(in) == IF in.kind = "text" THEN in.text ELSE <<>>

\* json?.rawText || extractedText (line 348)
RawTextOf(json, in) == IF json.rawText # <<>> THEN json.rawText ELSE ExtractedText(in)

ReasonError == "Error calling Gemini API: "
ReasonNoEvent == "No valid event found in Gemini response. Check console for details."

\* The values of hasFreeFood and registrationNeeded: the booleans "true" and
\* "false", the string "'true'", "null", and "undefined" for an absent field.
TagFreeFood == <<"#","F","r","e","e"," ","F","o","o","d">>
TagNeeded ==
    <<"#","R","e","g","i","s","t","r","a","t","i","o","n"," ","N","e","e","d","e","d">>
TagNotMentioned ==
    <<"#","R","e","g","i","s","t","r","a","t","i","o","n"," ","N","o","t"," ",
      "M","e","n","t","i","o","n","e","d">>

\* Lines 576-590: the hashtags of the item.
Hashtags(item) ==
    (IF item.hasFreeFood \in {"true", "'true'"} THEN <<TagFreeFood>> ELSE <<>>)
    \o (IF item.registrationNeeded \in {"true", "'true'"} THEN <<TagNeeded>>
        ELSE IF item.registrationNeeded \in {"null", "undefined"} THEN <<TagNotMentioned>>
        ELSE <<>>)

\* tags.join(' ')
RECURSIVE JoinTags(_)
JoinTags(tags) ==
    IF tags = <<>> THEN <<>>
    ELSE IF Len(tags) = 1 THEN tags[1]
    ELSE tags[1] \o <<" ">> \o JoinTags(Tail(tags))

\* Variant: the raw text is put in front of the item's own description.
DescriptionWithBoth(item, rawText) ==
    LET description == rawText \o item.description
    IN  IF Hashtags(item) # <<>>
        THEN JoinTags(Hashtags(item)) \o <<"\n","\n">> \o description
        ELSE description

\* Lines 574-596: the description of the normalized item.
DescriptionOf(item, rawText) ==
    LET description == IF rawText # <<>> THEN rawText ELSE item.description
    IN  IF Hashtags(item) # <<>>
        THEN JoinTags(Hashtags(item)) \o <<"\n","\n">> \o description
        ELSE description

\* The event with a description.
Described(ev, description) ==
    [title |-> ev.title, description |-> description, startISO |-> ev.startISO,
     endISO |-> ev.endISO, timezone |-> ev.timezone, allDay |-> ev.allDay]

\* description.includes(rawText)
Includes(description, rawText) ==
    \E i \in 0..(Len(description) - Len(rawText)) :
        \A j \in 1..Len(rawText) : description[i + j] = rawText[j]

\* Lines 640-658: the raw text is put into a description that does not hold
\* it, behind the hashtag line (the text up to the first blank line of a
\* description that starts with '#').  The description of line 575 is the
\* raw text whenever there is one.
DescriptionStep(ev, rawText) ==
    IF ev.description # <<>> /\ Includes(ev.description, rawText) THEN ev
    ELSE LET d == ev.description
             ends == {i \in 1..(Len(d) - 1) : d[i] = "\n" /\ d[i + 1] = "\n"}
             cut == IF d # <<>> /\ d[1] = "#" /\ ends # {}
                    THEN (CHOOSE i \in ends : \A k \in ends : i <= k) + 1 ELSE 0
             hashtags == SubSeq(d, 1, cut)
             without == SubSeq(d, cut + 1, Len(d))
         IN  [ev EXCEPT !.description = hashtags \o (IF without # <<>> THEN without
                                                      ELSE rawText)]

\* Lines 346-991 and the catch clause of lines 992-1001: the normalization
\* of a parsed JSON response.
Normalize(json, in, clock, zone) ==
    LET rawText        == RawTextOf(json, in)
        item           == json.item
        sourceTimezone == IF item.timezone # "" THEN item.timezone ELSE NewYork
        caught         == Fallback(InputText(in), clock, ReasonError, ExtractedText(in))
        noEvent        == Fallback(InputText(in), clock, ReasonNoEvent, ExtractedText(in))
    IN  IF ~json.hasEvent THEN noEvent
        ELSE IF item.startISO.kind \in {"number", "object"}
                \/ item.endISO.kind \in {"number", "object"} THEN caught
        ELSE Let(ConvertTimestamp(item.startISO, sourceTimezone, zone), LAMBDA startISO :
             Let(ConvertTimestamp(item.endISO, sourceTimezone, zone), LAMBDA endISO :
                 IF startISO.kind = "none" \/ endISO.kind = "none" THEN noEvent
                 ELSE LET parsed == Described(
                                        Event(IF item.title # <<>> THEN item.title ELSE Untitled,
                                              startISO, endISO, NewYork, item.allDay),
                                        DescriptionOf(item, rawText))
                      IN  IF rawText = <<>>
                          THEN [method |-> "gemini", events |-> <<parsed>>, reason |-> "",
                                extractedText |-> ExtractedText(in)]
                          ELSE Let(FixEvent(DescriptionStep(parsed, rawText), rawText,
                                            getFullYear(clock, zone), zone),
                                   LAMBDA fixed :
                                   IF fixed.threw THEN caught
                                   ELSE [method |-> "gemini", events |-> <<fixed.ev>>,
                                         reason |-> "", extractedText |-> rawText])))

\* Lines 242-267: the reason given for an HTTP status.
HttpReason(status) ==
    CASE status = 404 -> "All Gemini models returned 404 (not found)."
      [] status \in {401, 403} -> "API key invalid or missing permissions"
      [] status = 400 -> "Bad request (400): "
      [] status = 500 -> "Backend server error (500): "
      [] OTHER -> "API error: "

HttpStatuses == {400, 401, 403, 404, 500, 503}

Resolve(r) ==
    /\ result' = r
    /\ callPc' = "done"

\* Lines 49-63: the config request fails or answers a non-OK status.
ConfigFails ==
    /\ callPc = "start"
    /\ Resolve(Fallback(InputText(input), now,
                        "Failed to fetch config from backend: ", ExtractedText(input)))
    /\ UNCHANGED <<input, now, runtimeZone, aiJson, projVars, modalVars, bulkVars, extraVars>>

\* Lines 65-74: config.aiParseMode === 'local'.
ConfigLocal ==
    /\ callPc = "start"
    /\ Resolve(Fallback(IF input.kind = "text" THEN input.text ELSE TxtImageLocal, now,
                        "AI_PARSE_MODE is set to \"local\"", ExtractedText(input)))
    /\ UNCHANGED <<input, now, runtimeZone, aiJson, projVars, modalVars, bulkVars, extraVars>>

\* Lines 76-224: the request to /api/gemini is sent.
ConfigRemote ==
    /\ callPc = "start"
    /\ callPc' = "call"
    /\ UNCHANGED <<input, now, runtimeZone, aiJson, result, projVars, modalVars, bulkVars, extraVars>>

\* Lines 220, 992-1001: fetch rejects (network error).
GeminiThrows ==
    /\ callPc = "call"
    /\ Resolve(Fallback(InputText(input), now, ReasonError, ExtractedText(input)))
    /\ UNCHANGED <<input, now, runtimeZone, aiJson, projVars, modalVars, bulkVars, extraVars>>

\* Lines 226-278: the proxy answers a non-OK status.
GeminiHttpError ==
    /\ callPc = "call"
    /\ \E status \in HttpStatuses :
           Resolve(Fallback(InputText(input), now, HttpReason(status), ExtractedText(input)))
    /\ UNCHANGED <<input, now, runtimeZone, aiJson, projVars, modalVars, bulkVars, extraVars>>

\* Lines 336-344: the response holds no candidate text.
GeminiNoText ==
    /\ callPc = "call"
    /\ Resolve(Fallback(InputText(input), now, "No text response from Gemini API",
                        ExtractedText(input)))
    /\ UNCHANGED <<input, now, runtimeZone, aiJson, projVars, modalVars, bulkVars, extraVars>>

\* Lines 303-335: the candidate text is not JSON and holds no JSON.
GeminiUnparsable ==
    /\ callPc = "call"
    /\ \E reason \in {"Failed to parse JSON response from Gemini. Response: ",
                      "No valid JSON found in Gemini response. Response: "} :
           Resolve(Fallback(InputText(input), now, reason, ExtractedText(input)))
    /\ UNCHANGED <<input, now, runtimeZone, aiJson, projVars, modalVars, bulkVars, extraVars>>

\* The AI responses considered.  A timestamp is written at one of AIStarts
\* in one of the zone forms ("Z", none, numeric offset); the end is
\* EventMinutes after the start, or before it in AIReversed.
AIStarts == {[year |-> 2025, month |-> 9, day |-> 17, hour |-> 18],
             [year |-> 2025, month |-> 9, day |-> 17, hour |-> 21],
             [year |-> 2024, month |-> 9, day |-> 17, hour |-> 18],
             [year |-> 2025, month |-> 10, day |-> 1, hour |-> 2]}
EventMinutes == 180
AIReversed == <<[year |-> 2025, month |-> 9, day |-> 17, hour |-> 18], -60>>
\* <<zone form of the timestamps, timezone field of the event>>
AIZoneForms == {<<"Z", "">>, <<"", "">>, <<"-04:00", "">>,
                <<"Z", LosAngeles>>, <<"", LosAngeles>>}
AIAllDay == {"true", "false"}
AITitle == <<"G","a","l","a">>

RawTexts == {TxtSept17, TxtMarch5, TxtEvent6pm, TxtLateParty, TxtGala,
             TxtAllDayFair, TxtMeeting, TxtAllday}

\* The timestamp string n minutes after str, in the same form.
ShiftString(str, n) ==
    Let(UtcFields(UtcMinutes(str.year, str.month, str.day, str.hour, str.minute) + n),
        LAMBDA f : [str EXCEPT !.year = f.year, !.month = f.month, !.day = f.day,
                               !.hour = f.hour, !.minute = f.minute])

\* <<startISO, endISO, timezone>> of the event objects
AITimes ==
    {<<IsoString(s.year, s.month, s.day, s.hour, 0, 0, z[1]),
       ShiftString(IsoString(s.year, s.month, s.day, s.hour, 0, 0, z[1]), n), z[2]>> :
         s \in AIStarts, n \in {EventMinutes}, z \in AIZoneForms}
    \cup {<<IsoString(AIReversed[1].year, AIReversed[1].month, AIReversed[1].day,
                      AIReversed[1].hour, 0, 0, z[1]),
            ShiftString(IsoString(AIReversed[1].year, AIReversed[1].month, AIReversed[1].day,
                                  AIReversed[1].hour, 0, 0, z[1]), AIReversed[2]), z[2]>> :
              z \in AIZoneForms}
    \cup {<<TextString, TextString, "">>, <<NumberValue, NumberValue, "">>,
          <<NoString, NoString, "">>}

JsonResponses ==
    {Json(rawText, TRUE, Item(AITitle, t[1], t[2], t[3], allDay)) :
        rawText \in RawTexts \cup {<<>>}, t \in AITimes, allDay \in AIAllDay}
    \cup {NoJson}

\* Lines 280-991: the response is JSON; it is normalized and returned.
GeminiJson ==
    /\ callPc = "call"
    /\ \E json \in JsonResponses :
           /\ aiJson' = json
           /\ Resolve(Normalize(json, input, now, runtimeZone))
    /\ UNCHANGED <<input, now, runtimeZone, projVars, modalVars, bulkVars, extraVars>>

-----------------------------------------------------------------------------
(* EventEditModal.                                                         *)

\* A value of the timezone field: a name with or without blanks around it;
\* name "" is the empty field.
Typed(name, blanks) == [name |-> name, blanks |-> blanks]

\* value.trim()
Trim(value) == value.name

NoTzInput == [value |-> Typed("", FALSE), raised |-> FALSE]

NoForm == [startDate |-> [year |-> 0, month |-> 0, day |-> 0], startTime |-> HM(0, 0),
           endDate |-> [year |-> 0, month |-> 0, day |-> 0], endTime |-> HM(0, 0),
           allDay |-> FALSE]

NoEvent == Event(<<>>, NoString, NoString, "", "undefined")

NotSaved == [called |-> FALSE, event |-> NoEvent]

NewTitle == <<"N","e","w">>

\* Lines 15-47: the modal is mounted on the first event of the result; the
\* effect fills the form from the event in the display timezone.  (With an
\* event whose times are no dates formatToParts throws while rendering.)
OpenModal ==
    /\ callPc = "done"
    /\ ~mOpen
    /\ ~saved.called
    /\ Len(result.events) > 0
    /\ LET event == result.events[1]
           start == NewDate(event.startISO, runtimeZone)
           end   == NewDate(event.endISO, runtimeZone)
       IN  /\ start.valid /\ end.valid
           /\ LET startComponents == getDateComponentsInTimezone(start, NewYork)
                  endComponents   == getDateComponentsInTimezone(end, NewYork)
              IN  mForm' = [startDate |-> [year |-> startComponents.year,
                                           month |-> startComponents.month,
                                           day |-> startComponents.day],
                            startTime |-> HM(startComponents.hours, startComponents.minutes),
                            endDate |-> [year |-> endComponents.year,
                                         month |-> endComponents.month,
                                         day |-> endComponents.day],
                            endTime |-> HM(endComponents.hours, endComponents.minutes),
                            allDay |-> (event.allDay = "true")]
           /\ mEvent' = event
           /\ editedEvent' = event
    /\ mOpen' = TRUE
    /\ displayTimezone' = NewYork
    /\ UNCHANGED <<tzInput, saved, callVars, projVars, bulkVars, extraVars>>

\* Line 171: the title field is edited.
EditTitle ==
    /\ mOpen
    /\ editedEvent.title # NewTitle
    /\ editedEvent' = [editedEvent EXCEPT !.title = NewTitle]
    /\ UNCHANGED <<mOpen, mEvent, mForm, displayTimezone, tzInput, saved, callVars, projVars,
                 bulkVars, extraVars>>

\* Lines 51-82: handleSave.
handleSave ==
    /\ mOpen
    /\ LET startTz == createDateFromTimezone(mForm.startDate,
                          IF mForm.allDay THEN HM(0, 0) ELSE mForm.startTime, displayTimezone)
           endTz   == createDateFromTimezone(mForm.endDate,
                          IF mForm.allDay THEN HM(23, 59) ELSE mForm.endTime, displayTimezone)
       IN  /\ ~startTz.threw /\ ~endTz.threw
           /\ saved' = [called |-> TRUE,
                        event |-> [editedEvent EXCEPT
                                     !.allDay = IF mForm.allDay THEN "true" ELSE "false",
                                     !.startISO = toISOString(startTz.date),
                                     !.endISO = toISOString(endTz.date)]]
    /\ mOpen' = FALSE
    /\ UNCHANGED <<mEvent, editedEvent, mForm, displayTimezone, tzInput, callVars, projVars,
                 bulkVars, extraVars>>

\* Lines 26-47: the effect run when event or displayTimezone changes; the
\* form for the event in the timezone (a valid date and an accepted name).
FormIn(event, timezone, zone) ==
    LET startComponents == getDateComponentsInTimezone(NewDate(event.startISO, zone), timezone)
        endComponents   == getDateComponentsInTimezone(NewDate(event.endISO, zone), timezone)
    IN  [startDate |-> [year |-> startComponents.year, month |-> startComponents.month,
                        day |-> startComponents.day],
         startTime |-> HM(startComponents.hours, startComponents.minutes),
         endDate |-> [year |-> endComponents.year, month |-> endComponents.month,
                      day |-> endComponents.day],
         endTime |-> HM(endComponents.hours, endComponents.minutes),
         allDay |-> (event.allDay = "true")]

\* The state after setDisplayTimezone(timezone): when the value changes the
\* effect refills the form and resets editedEvent; Intl.DateTimeFormat
\* throws on a name the platform does not accept.
SetDisplayTimezone(timezone, typed) ==
    /\ displayTimezone' = timezone
    /\ IF timezone = displayTimezone
       THEN /\ tzInput' = [value |-> typed, raised |-> FALSE]
            /\ UNCHANGED <<mForm, editedEvent>>
       ELSE IF timezone \notin Zones
       THEN /\ tzInput' = [value |-> typed, raised |-> TRUE]
            /\ UNCHANGED <<mForm, editedEvent>>
       ELSE /\ tzInput' = [value |-> typed, raised |-> FALSE]
            /\ mForm' = FormIn(mEvent, timezone, runtimeZone)
            /\ editedEvent' = mEvent

\* The values typed into the timezone field.
TimezoneInputs ==
    {Typed(name, blanks) : name \in Zones \cup {"Mars/Phobos", ""}, blanks \in BOOLEAN}

\* Variant: the name is not validated.
handleTimezoneChangeUnchecked ==
    /\ mOpen
    /\ \E typed \in TimezoneInputs :
           SetDisplayTimezone(IF Trim(typed) # "" THEN Trim(typed) ELSE NewYork, typed)
    /\ UNCHANGED <<mOpen, mEvent, saved, callVars, projVars, bulkVars, extraVars>>

\* Lines 91-107: handleTimezoneChange.  toLocaleString throws a RangeError
\* on a name that is not in Zones.
handleTimezoneChange ==
    /\ mOpen
    /\ \E typed \in TimezoneInputs :
           LET newTz == Trim(typed)
           IN  IF newTz # ""
               THEN IF newTz \in Zones
                    THEN SetDisplayTimezone(newTz, typed)
                    ELSE /\ tzInput' = [value |-> typed, raised |-> FALSE]
                         /\ UNCHANGED <<displayTimezone, mForm, editedEvent>>
               ELSE SetDisplayTimezone(NewYork, typed)
    /\ UNCHANGED <<mOpen, mEvent, saved, callVars, projVars, bulkVars, extraVars>>

\* Lines 84-89: handleCancel.
handleCancel ==
    /\ mOpen
    /\ displayTimezone' = NewYork
    /\ editedEvent' = mEvent
    /\ mOpen' = FALSE
    /\ mForm' = IF displayTimezone = NewYork THEN mForm
                ELSE FormIn(mEvent, NewYork, runtimeZone)
    /\ UNCHANGED <<mEvent, tzInput, saved, callVars, projVars, bulkVars, extraVars>>

-----------------------------------------------------------------------------
(* The pipeline: one call of parseWithAI, then the edit of its event.      *)

\* The clock: 2025-09-10T14:23:45.678Z
ClockMinutes == UtcMinutes(2025, 9, 10, 14, 23)
ClockMs == 45678

Inputs == {ImageInput, TextInput(TxtMeeting)}
RuntimeZones == {NewYork, UTCZone}

ProjIdle ==
    /\ pc = "idle"
    /\ pDate = [year |-> 0, month |-> 0, day |-> 0]
    /\ pTime = HM(0, 0)
    /\ pZone = ""
    /\ pInstant = Threw
    /\ pBack = [year |-> 0, month |-> 0, day |-> 0, hours |-> 0, minutes |-> 0, seconds |-> 0]

ModalIdle ==
    /\ mOpen = FALSE
    /\ mEvent = NoEvent
    /\ editedEvent = NoEvent
    /\ mForm = NoForm
    /\ displayTimezone = NewYork
    /\ tzInput = NoTzInput
    /\ saved = NotSaved

BulkIdle ==
    /\ bulkPc = "idle"
    /\ bulkFiles = 0
    /\ bulkIndex = 0
    /\ allEvents = <<>>
    /\ allParseResults = <<>>

\* Nothing was sent to the calendar.
NoRequest == [sent |-> FALSE]

PeerIdle ==
    /\ peerPc = "idle"
    /\ peerInput = ImageInput
    /\ peerText = <<>>
    /\ peerJson = NoJson
    /\ peerResult = NoResult

NoAuthError == [call |-> 0, status |-> 0]

ProxyIdle ==
    /\ proxyPc = "idle"
    /\ proxyModels = <<>>
    /\ proxyAt = <<1, 1>>
    /\ proxyResp = 0
    /\ proxyCalls = <<>>
    /\ proxyAuthAt = NoAuthError
    /\ proxyReply = 0

NoRecord == [present |-> FALSE, count |-> 0, resetAt |-> 0, expiresAt |-> 0]
NoReply == [status |-> 0, remaining |-> 0, resetAt |-> 0, retryAfter |-> 0]

LimitIdle ==
    /\ limitClock = 0
    /\ limitRecord = NoRecord
    /\ limitReply = NoReply

ExtraIdle ==
    /\ calRequest = NoRequest
    /\ PeerIdle
    /\ ProxyIdle
    /\ LimitIdle

CallIdle ==
    /\ callPc = "idle"
    /\ input = ImageInput
    /\ now = MkDate(ClockMinutes, ClockMs)
    /\ runtimeZone = NewYork
    /\ aiJson = NoJson
    /\ result = NoResult

Init ==
    /\ callPc = "start"
    /\ input \in Inputs
    /\ now = MkDate(ClockMinutes, ClockMs)
    /\ runtimeZone \in RuntimeZones
    /\ aiJson = NoJson
    /\ result = NoResult
    /\ ModalIdle
    /\ ProjIdle
    /\ BulkIdle
    /\ ExtraIdle

Next ==
    \/ ConfigFails
    \/ ConfigLocal
    \/ ConfigRemote
    \/ GeminiThrows
    \/ GeminiHttpError
    \/ GeminiNoText
    \/ GeminiUnparsable
    \/ GeminiJson
    \/ OpenModal
    \/ EditTitle
    \/ handleSave

Spec == Init /\ [][Next]_vars

-----------------------------------------------------------------------------
(* Harness of the Timezone Projector: a (date, time, timezone) triple is   *)
(* converted to an instant and read back.                                  *)

\* First date of the harness and the number of days after it.
ProjBaseDay == DaysFromCivil(2025, 9, 29)
MaxDayOffset == 3
\* Times of day are the multiples of ProjStepMinutes.
ProjStepMinutes == 30

ProjDates == {CivilFromDays(ProjBaseDay + k) : k \in 0..MaxDayOffset}
ProjTimes == {[hours |-> m \div 60, minutes |-> m % 60] :
                 m \in {k * ProjStepMinutes : k \in 0..((MinutesPerDay - 1) \div ProjStepMinutes)}}

NoParts == [year |-> 0, month |-> 0, day |-> 0, hours |-> 0, minutes |-> 0, seconds |-> 0]

ProjInit ==
    /\ pc = "in"
    /\ pDate \in ProjDates
    /\ pTime \in ProjTimes
    /\ pZone \in Zones
    /\ pInstant = Threw
    /\ pBack = NoParts
    /\ CallIdle
    /\ ModalIdle
    /\ BulkIdle
    /\ ExtraIdle

ToUTC ==
    /\ pc = "in"
    /\ pInstant' = createDateFromTimezone(pDate, pTime, pZone)
    /\ pc' = "utc"
    /\ UNCHANGED <<pDate, pTime, pZone, pBack, callVars, modalVars, bulkVars, extraVars>>

ToLocal ==
    /\ pc = "utc"
    /\ ~pInstant.threw
    /\ pBack' = getDateComponentsInTimezone(pInstant.date, pZone)
    /\ pc' = "local"
    /\ UNCHANGED <<pDate, pTime, pZone, pInstant, callVars, modalVars, bulkVars, extraVars>>

ProjNext == ToUTC \/ ToLocal

SpecProjector == ProjInit /\ [][ProjNext]_vars

-----------------------------------------------------------------------------
\* C1: round-trip law of the Timezone Projector: reading back the instant
\* made from (date, time, tz) gives the same year, month, day, hour, minute.
C1_RoundTrip ==
    pc = "local" =>
        /\ pBack.year = pDate.year
        /\ pBack.month = pDate.month
        /\ pBack.day = pDate.day
        /\ pBack.hours = pTime.hours
        /\ pBack.minutes = pTime.minutes


-----------------------------------------------------------------------------
(* parseWithAI called on a text that holds a time range, the AI answering  *)
(* with an event in the afternoon of a day in the middle of the month.     *)

\* The decimal digits of n (0..99), and n written with two digits.
NumText(n) == IF n < 10 THEN <<DigitChars[n + 1]>>
              ELSE <<DigitChars[(n \div 10) + 1], DigitChars[(n % 10) + 1]>>
TwoDigits(n) == <<DigitChars[(n \div 10) + 1], DigitChars[(n % 10) + 1]>>

\* Meridiem markers as written.
Meridiems == {<<"a","m">>, <<"P","M">>}

\* A written range: its form, the hour, minutes and meridiem of its start,
\* the hour and meridiem of its end (p2 alone where one marker is shared).
Written(form, h1, m1, p1, h2, p2) ==
    [form |-> form, h1 |-> h1, m1 |-> m1, p1 |-> p1, h2 |-> h2, p2 |-> p2]

\* The ways a range is written (spec section 4.2).
RangeForms == {"shared", "sharedSpaced", "sharedMinutes", "each", "eachMinutes", "mixed"}
SharedForms == {"shared", "sharedSpaced", "sharedMinutes"}
MinuteForms == {"sharedMinutes", "eachMinutes", "mixed"}

TextOf(w) ==
    CASE w.form = "shared"        -> NumText(w.h1) \o <<"-">> \o NumText(w.h2) \o w.p2
      [] w.form = "sharedSpaced"  -> NumText(w.h1) \o <<" ","<endash>"," ">> \o NumText(w.h2)
                                     \o <<" ">> \o w.p2
      [] w.form = "sharedMinutes" -> NumText(w.h1) \o <<":">> \o TwoDigits(w.m1)
                                     \o <<" ","-"," ">> \o NumText(w.h2) \o <<":">>
                                     \o TwoDigits(0) \o <<" ">> \o w.p2
      [] w.form = "each"          -> NumText(w.h1) \o w.p1 \o <<" ","-"," ">>
                                     \o NumText(w.h2) \o w.p2
      [] w.form = "eachMinutes"   -> NumText(w.h1) \o <<":">> \o TwoDigits(w.m1) \o <<" ">>
                                     \o w.p1 \o <<" ","-"," ">> \o NumText(w.h2) \o <<":">>
                                     \o TwoDigits(0) \o <<" ">> \o w.p2
      [] OTHER                    -> NumText(w.h1) \o <<":">> \o TwoDigits(w.m1) \o w.p1
                                     \o <<"-">> \o NumText(w.h2) \o w.p2

\* The texts end with the year, so that the year correction leaves the
\* event alone.
Year2025 == <<" ","2","0","2","5">>
Sentence(w) == TextOf(w) \o Year2025

\* One range: every hour 1..12 at the start and at the end, the minutes
\* RangeMinutes where the form has minutes.
RangeMinutes == MinutesPerHour \div 2
SingleRanges ==
    {Written(form, h, IF form \in MinuteForms THEN RangeMinutes ELSE 0, p1, (h % 12) + 1, p2) :
        form \in RangeForms, h \in 1..12, p1 \in Meridiems, p2 \in Meridiems}

\* Two ranges in one text, such as "6-7pm 8:00 PM - 10:00 PM".
EarlyRanges == {Written("shared", 6, 0, <<"p","m">>, 7, <<"p","m">>),
                Written("each", 6, 0, <<"p","m">>, 7, <<"p","m">>)}
LateRanges == {Written("eachMinutes", 8, 0, <<"P","M">>, 10, <<"P","M">>),
               Written("sharedMinutes", 8, 0, <<"P","M">>, 10, <<"P","M">>),
               Written("sharedSpaced", 8, 0, <<"p","m">>, 10, <<"p","m">>)}
TwoRanges == {<<a, b>> : a \in EarlyRanges, b \in LateRanges}
             \cup {<<b, a>> : a \in EarlyRanges, b \in LateRanges}
Sentence2(pair) == TextOf(pair[1]) \o <<" ">> \o TextOf(pair[2]) \o Year2025

RangeInputs == {TextInput(Sentence(w)) : w \in SingleRanges}
               \cup {TextInput(Sentence2(pair)) : pair \in TwoRanges}

\* The AI answers 15:00 to 16:00 of 2025-09-17, without a zone or with the
\* offset of New York, and without a rawText (the input text is used).
RangeResponses ==
    {Json(<<>>, TRUE, Item(AITitle, IsoString(2025, 9, 17, 15, 0, 0, z),
                           IsoString(2025, 9, 17, 16, 0, 0, z), "", "false")) :
        z \in {"", "-04:00"}}

\* Lines 280-991 for one of RangeResponses.
GeminiRange ==
    /\ callPc = "call"
    /\ \E json \in RangeResponses :
           /\ aiJson' = json
           /\ Resolve(Normalize(json, input, now, runtimeZone))
    /\ UNCHANGED <<input, now, runtimeZone, projVars, modalVars, bulkVars, extraVars>>

RangesInit ==
    /\ callPc = "start"
    /\ input \in RangeInputs
    /\ now = MkDate(ClockMinutes, ClockMs)
    /\ runtimeZone \in RuntimeZones
    /\ aiJson = NoJson
    /\ result = NoResult
    /\ ModalIdle
    /\ ProjIdle
    /\ BulkIdle
    /\ ExtraIdle

RangesNext == ConfigRemote \/ GeminiRange

SpecRanges == RangesInit /\ [][RangesNext]_vars

-----------------------------------------------------------------------------
(* parseWithAI on the JSON value of the response as the AI writes it: the  *)
(* event under `event`, in the array `events` or at the top level, its     *)
(* times and title under any of the field names the code accepts.          *)

\* An event object with every field absent.  start and end hold a string
\* or an object {dateTime, timeZone}: the object is the record of its
\* dateTime with kind "object", its timeZone in startTimeZone.
BlankItem ==
    [title |-> <<>>, name |-> <<>>, summary |-> <<>>,
     startISO |-> NoString, start |-> NoString, startTime |-> NoString, startDate |-> NoString,
     endISO |-> NoString, end |-> NoString, endTime |-> NoString, endDate |-> NoString,
     timezone |-> "", tz |-> "", startTimeZone |-> "", allDay |-> "undefined",
     description |-> <<>>, hasFreeFood |-> "undefined", registrationNeeded |-> "undefined"]

ObjectValue(dateTime) == [dateTime EXCEPT !.kind = "object"]

\* a || b on field values of one kind, absent being the absent or empty
\* value of that kind (NoString, <<>> or "")
OrElse(absent, a, b) == IF a = absent THEN b ELSE a

\* Lines 373-388 and 599, 605: the fields of the event object resolved.
\* The nested lookups of lines 377-382 need `item.start` truthy and
\* `startISO` falsy at once.
ResolveItem(raw) ==
    LET startISO == OrElse(NoString, raw.startISO,
                           OrElse(NoString, raw.start,
                                  OrElse(NoString, raw.startTime, raw.startDate)))
        endISO   == OrElse(NoString, raw.endISO,
                           OrElse(NoString, raw.end,
                                  OrElse(NoString, raw.endTime, raw.endDate)))
        nestedStart == IF startISO = NoString /\ raw.start # NoString
                       THEN [raw.start EXCEPT !.kind = "iso"] ELSE startISO
        nestedEnd   == IF endISO = NoString /\ raw.end # NoString
                       THEN [raw.end EXCEPT !.kind = "iso"] ELSE endISO
        timezone == OrElse("", OrElse("", raw.timezone, raw.tz),
                           IF raw.start.kind = "object" THEN raw.startTimeZone ELSE "")
    IN  [Item(OrElse(<<>>, raw.title, OrElse(<<>>, raw.name, raw.summary)),
              nestedStart, nestedEnd,
              timezone, raw.allDay)
            EXCEPT !.description = raw.description,
                   !.hasFreeFood = raw.hasFreeFood,
                   !.registrationNeeded = raw.registrationNeeded]

\* The JSON value: rawText, and the event objects it holds under `event`
\* (shape "event"), in the array `events` (shape "events", any length),
\* as the object `events` (shape "eventsObject") or as its own fields
\* (shape "self"); shape "none" holds no event.
Response(rawText, shape, events) == [rawText |-> rawText, shape |-> shape, events |-> events]

\* Lines 352-366: eventItem; <<>> is null.
EventItemOf(resp) ==
    CASE resp.shape \in {"event", "eventsObject"} -> <<resp.events[1]>>
      [] resp.shape = "events" -> IF Len(resp.events) > 0 THEN <<resp.events[1]>> ELSE <<>>
      [] resp.shape = "self" ->
             IF \/ resp.events[1].startISO # NoString
                \/ resp.events[1].start # NoString
                \/ resp.events[1].startTime # NoString
             THEN <<resp.events[1]>> ELSE <<>>
      [] OTHER -> <<>>

\* Lines 346-388: rawText and the resolved event of the response.
JsonOf(resp) ==
    IF EventItemOf(resp) = <<>> THEN Json(resp.rawText, FALSE, NoItem)
    ELSE Json(resp.rawText, TRUE, ResolveItem(EventItemOf(resp)[1]))

\* The values written by the AI: two events (18:00-21:00 of 2025-09-17 and
\* 10:00-11:00 of 2025-09-18), with or without 'Z'.
AIFirst(z) == <<IsoString(2025, 9, 17, 18, 0, 0, z), IsoString(2025, 9, 17, 21, 0, 0, z)>>
AISecond(z) == <<IsoString(2025, 9, 18, 10, 0, 0, z), IsoString(2025, 9, 18, 11, 0, 0, z)>>
AIName == <<"F","a","i","r">>
AISummary == <<"S","h","o","w">>
BlankTitle == <<" "," "," ">>
UnknownZone == "Mars/Phobos"

\* The item with the times t = <<start, end>> under the k-th pair of field
\* names.
SetTimes(raw, k, t) ==
    CASE k = 1 -> [raw EXCEPT !.startISO = t[1], !.endISO = t[2]]
      [] k = 2 -> [raw EXCEPT !.start = t[1], !.end = t[2]]
      [] k = 3 -> [raw EXCEPT !.startTime = t[1], !.endTime = t[2]]
      [] OTHER -> [raw EXCEPT !.startDate = t[1], !.endDate = t[2]]

Titled == [BlankItem EXCEPT !.title = AITitle]

FieldItems ==
    {SetTimes(Titled, k, AIFirst(z)) : k \in 1..4, z \in {"", "Z"}}
    \cup {SetTimes(SetTimes(Titled, k + 1, AISecond("")), k, AIFirst("")) : k \in 1..3}

NestedItems ==
    {[Titled EXCEPT !.start = ObjectValue(AIFirst("")[1]), !.end = ObjectValue(AIFirst("")[2]),
                    !.startTimeZone = tz] : tz \in {"", LosAngeles}}
    \cup {[SetTimes(Titled, 1, AISecond("")) EXCEPT !.start = ObjectValue(AIFirst("")[1]),
                                                     !.end = ObjectValue(AIFirst("")[2])]}

ZoneItems ==
    {[SetTimes(Titled, 1, AIFirst(z)) EXCEPT !.timezone = timezone, !.tz = tz] :
        z \in {"", "Z"}, timezone \in {"", LosAngeles, UnknownZone},
        tz \in {"", LosAngeles, UnknownZone}}

TitleItems ==
    {[SetTimes(BlankItem, 1, AIFirst("")) EXCEPT !.title = title, !.name = name,
                                                  !.summary = summary] :
        title \in {<<>>, AITitle, BlankTitle}, name \in {<<>>, AIName},
        summary \in {<<>>, AISummary}}

\* The description the AI writes, and the values of the two flags.
AIDescription == <<"B","r","i","n","g"," ","I","D">>
FlagValues == {"true", "'true'", "false", "null", "undefined"}
TagItems ==
    {[SetTimes(Titled, 1, AIFirst("")) EXCEPT !.hasFreeFood = food,
                                                !.registrationNeeded = needed,
                                                !.description = description] :
        food \in FlagValues, needed \in FlagValues,
        description \in {<<>>, AIDescription}}

\* An event without times, and two valid events.
InvalidItem == Titled
ValidItems == {SetTimes(Titled, 1, AIFirst("")),
               SetTimes([Titled EXCEPT !.title = AIName], 1, AISecond(""))}

MaxEvents == 2
EventArrays ==
    UNION {[1..n -> ValidItems \cup {InvalidItem}] : n \in 0..MaxEvents}

Responses ==
    {Response(<<>>, "event", <<raw>>) :
        raw \in FieldItems \cup NestedItems \cup ZoneItems \cup TitleItems}
    \cup {Response(<<>>, shape, <<raw>>) :
            shape \in {"eventsObject", "self"},
            raw \in {SetTimes(Titled, k, AIFirst("")) : k \in 1..4} \cup NestedItems}
    \cup {Response(<<>>, "events", events) : events \in EventArrays}
    \cup {Response(rawText, "event", <<raw>>) :
            rawText \in {<<>>, TxtImageInput}, raw \in TagItems}
    \cup {Response(<<>>, "none", <<>>)}

\* Lines 280-991 for one of Responses.
GeminiResponse ==
    /\ callPc = "call"
    /\ \E resp \in Responses :
           /\ aiJson' = resp
           /\ Resolve(Normalize(JsonOf(resp), input, now, runtimeZone))
    /\ UNCHANGED <<input, now, runtimeZone, projVars, modalVars, bulkVars, extraVars>>

ResponseInit ==
    /\ callPc = "start"
    /\ input \in Inputs
    /\ now = MkDate(ClockMinutes, ClockMs)
    /\ runtimeZone \in RuntimeZones
    /\ aiJson = NoJson
    /\ result = NoResult
    /\ ModalIdle
    /\ ProjIdle
    /\ BulkIdle
    /\ ExtraIdle

ResponseNext == ConfigRemote \/ GeminiResponse

SpecResponse == ResponseInit /\ [][ResponseNext]_vars

-----------------------------------------------------------------------------
(* parseWithAI when the AI step fails, on short and long texts and at      *)
(* several readings of the clock.                                          *)

\* A text of n characters whose lines are `line` characters long.
Filler(n, line) ==
    [i \in 1..n |-> IF i % (line + 1) = 0 THEN "\n" ELSE LowerCase[(i % 26) + 1]]

\* "Gala 6-9pm", a second line following
TxtTwoLines == <<"G","a","l","a"," ","6","-","9","p","m","\n","R","o","o","m"," ","2">>
\* a first line of blanks
TxtBlankLine == <<" "," ","\n","G","a","l","a"," ","6","p","m">>
\* an empty first line
TxtEmptyLine == <<"\n","G","a","l","a"," ","6","p","m">>

FallbackInputs ==
    {ImageInput, TextInput(TxtMeeting), TextInput(TxtAllDayFair), TextInput(TxtTwoLines),
     TextInput(TxtBlankLine), TextInput(TxtEmptyLine),
     TextInput(Filler(TitleMax, TitleMax)),
     TextInput(Filler(TitleMax + 1, TitleMax + 1)),
     TextInput(Filler(DescriptionMax, TitleMax + 10)),
     TextInput(Filler(DescriptionMax + 20, TitleMax + 10))}

\* Readings of the clock, the last one less than an hour before midnight UTC.
Clocks == {MkDate(ClockMinutes + k, ClockMs) : k \in {0, 37, 9 * MinutesPerHour}}

\* Responses without a usable event.
UnusableResponses ==
    {resp \in Responses :
        \/ resp.shape = "none"
        \/ resp.shape = "events" /\ (resp.events = <<>> \/ resp.events[1] = InvalidItem)
        \/ /\ resp.shape = "event"
           /\ resp.events[1] \in NestedItems
           /\ resp.events[1].startISO = NoString}

\* Lines 280-634 and 992-1001 for one of UnusableResponses.
GeminiUnusable ==
    /\ callPc = "call"
    /\ \E resp \in UnusableResponses :
           /\ aiJson' = resp
           /\ Resolve(Normalize(JsonOf(resp), input, now, runtimeZone))
    /\ UNCHANGED <<input, now, runtimeZone, projVars, modalVars, bulkVars, extraVars>>

FallbackInit ==
    /\ callPc = "start"
    /\ input \in FallbackInputs
    /\ now \in Clocks
    /\ runtimeZone \in RuntimeZones
    /\ aiJson = NoJson
    /\ result = NoResult
    /\ ModalIdle
    /\ ProjIdle
    /\ BulkIdle
    /\ ExtraIdle

FallbackNext ==
    \/ ConfigFails
    \/ ConfigLocal
    \/ ConfigRemote
    \/ GeminiThrows
    \/ GeminiHttpError
    \/ GeminiNoText
    \/ GeminiUnparsable
    \/ GeminiUnusable

SpecFallback == FallbackInit /\ [][FallbackNext]_vars

-----------------------------------------------------------------------------
(* handleBulkUpload: the images of a batch are handed to parseWithAI one   *)
(* by one and their events collected.                                      *)

MaxFiles == 2

\* Lines 206-217: handleBulkUpload(files) is called with 1..MaxFiles images.
BulkStart ==
    /\ bulkPc = "idle"
    /\ callPc = "idle"
    /\ \E n \in 1..MaxFiles : bulkFiles' = n
    /\ bulkIndex' = 0
    /\ allEvents' = <<>>
    /\ allParseResults' = <<>>
    /\ bulkPc' = "loop"
    /\ UNCHANGED <<callVars, projVars, modalVars, extraVars>>

\* Variant: the next image is also handed to parseWithAI as soon as the
\* call before it has resolved, without its result being collected.
BulkParseEager ==
    /\ \/ /\ bulkPc = "loop"
          /\ bulkIndex < bulkFiles
          /\ bulkPc' = "await"
          /\ bulkIndex' = bulkIndex
       \/ /\ bulkPc = "await"
          /\ callPc = "done"
          /\ bulkIndex + 1 < bulkFiles
          /\ bulkPc' = "await"
          /\ bulkIndex' = bulkIndex + 1
    /\ callPc' = "start"
    /\ input' = ImageInput
    /\ aiJson' = NoJson
    /\ result' = NoResult
    /\ UNCHANGED <<now, runtimeZone, bulkFiles, allEvents, allParseResults,
                   projVars, modalVars, extraVars>>

\* Lines 221-227: the next image is handed to parseWithAI.
BulkParse ==
    /\ bulkPc = "loop"
    /\ bulkIndex < bulkFiles
    /\ bulkPc' = "await"
    /\ callPc' = "start"
    /\ input' = ImageInput
    /\ aiJson' = NoJson
    /\ result' = NoResult
    /\ UNCHANGED <<now, runtimeZone, bulkFiles, bulkIndex, allEvents, allParseResults,
                   projVars, modalVars, extraVars>>

\* Lines 227-242 and 221 (i++): parseWithAI has resolved; its result and
\* its events are collected.
BulkCollect ==
    /\ bulkPc = "await"
    /\ callPc = "done"
    /\ allParseResults' = Append(allParseResults, result)
    /\ allEvents' = IF Len(result.events) > 0 THEN allEvents \o result.events ELSE allEvents
    /\ bulkIndex' = bulkIndex + 1
    /\ bulkPc' = "loop"
    /\ callPc' = "idle"
    /\ UNCHANGED <<input, now, runtimeZone, aiJson, result, bulkFiles, projVars, modalVars, extraVars>>

\* Lines 221 and 251-283: the loop is left.
BulkFinish ==
    /\ bulkPc = "loop"
    /\ bulkIndex = bulkFiles
    /\ bulkPc' = "done"
    /\ UNCHANGED <<bulkFiles, bulkIndex, allEvents, allParseResults,
                   callVars, projVars, modalVars, extraVars>>

\* The AI reads an event off the image, with or without the text of the
\* image, or answers without an event.
BulkResponses ==
    {Json(TxtMeeting, TRUE, Item(AITitle, AIFirst("")[1], AIFirst("")[2], "", "false")),
     Json(<<>>, TRUE, Item(AIName, AISecond("Z")[1], AISecond("Z")[2], "", "false")),
     NoJson}

\* Lines 280-991 for one of BulkResponses.
GeminiBulkJson ==
    /\ callPc = "call"
    /\ \E json \in BulkResponses :
           /\ aiJson' = json
           /\ Resolve(Normalize(json, input, now, runtimeZone))
    /\ UNCHANGED <<input, now, runtimeZone, projVars, modalVars, bulkVars, extraVars>>

BulkInit ==
    /\ callPc = "idle"
    /\ input = ImageInput
    /\ now = MkDate(ClockMinutes, ClockMs)
    /\ runtimeZone \in RuntimeZones
    /\ aiJson = NoJson
    /\ result = NoResult
    /\ ModalIdle
    /\ ProjIdle
    /\ BulkIdle
    /\ ExtraIdle

BulkNext ==
    \/ BulkStart
    \/ BulkParse
    \/ ConfigFails
    \/ ConfigRemote
    \/ GeminiThrows
    \/ GeminiHttpError
    \/ GeminiBulkJson
    \/ BulkCollect
    \/ BulkFinish

SpecBulk == BulkInit /\ [][BulkNext]_vars

-----------------------------------------------------------------------------
(* The edit modal with its timezone field: an event is parsed, the modal   *)
(* opened on it, timezones typed, the edit saved or cancelled.             *)

EditNext ==
    \/ ConfigRemote
    \/ GeminiBulkJson
    \/ OpenModal
    \/ EditTitle
    \/ handleTimezoneChange
    \/ handleCancel
    \/ handleSave

SpecEdit == Init /\ [][EditNext]_vars

-----------------------------------------------------------------------------
(* googleAuth.ts: createCalendarEvent, on the event shown (the saved event *)
(* after a save, else the first event of the result).                      *)

CalendarEvent == IF saved.called THEN saved.event ELSE result.events[1]

\* `${d.getFullYear()}-${d.getMonth() + 1}-${d.getDate()}`: the date of the
\* instant in the zone of the runtime.
LocalDateStr(date, zone) ==
    Let(FormatToParts(date, zone), LAMBDA parts :
        [year |-> parts.year, month |-> parts.month, day |-> parts.day])

\* The body of the POST request of lines 397-415 and 431-447.
RequestBody(event, zone) ==
    IF event.allDay = "true"
    THEN [allDay |-> TRUE,
          startDate |-> LocalDateStr(NewDate(event.startISO, zone), zone),
          endDate |-> LocalDateStr(AddLocalDay(NewDate(event.endISO, zone), zone), zone),
          startDateTime |-> NoString, endDateTime |-> NoString]
    ELSE [allDay |-> FALSE,
          startDate |-> [year |-> 0, month |-> 0, day |-> 0],
          endDate |-> [year |-> 0, month |-> 0, day |-> 0],
          startDateTime |-> event.startISO, endDateTime |-> event.endISO]

\* Lines 385-460: the request is sent; a token error or a response that is
\* not ok makes the call throw.
createCalendarEvent ==
    /\ callPc = "done"
    /\ ~mOpen
    /\ Len(result.events) > 0
    /\ ~calRequest.sent
    /\ \E response \in {"ok", "tokenError", "failed"} :
           calRequest' = [sent |-> TRUE, body |-> RequestBody(CalendarEvent, runtimeZone),
                          threw |-> response # "ok"]
    /\ UNCHANGED <<callVars, projVars, modalVars, bulkVars, peerVars, proxyVars,
                 limitVars>>

\* The AI's events: all-day events as the prompt asks for them (00:00:00Z to
\* 23:59:59Z of the day) and a timed event.
CalendarDays == {<<2025, 9, 17>>, <<2025, 9, 30>>, <<2025, 11, 1>>, <<2025, 12, 31>>}
CalendarResponses ==
    {Json(<<>>, TRUE, Item(AITitle, IsoString(d[1], d[2], d[3], 0, 0, 0, "Z"),
                           IsoString(d[1], d[2], d[3], 23, 59, 59, "Z"), "", "true")) :
        d \in CalendarDays}
    \cup {Json(<<>>, TRUE, Item(AITitle, AIFirst(z)[1], AIFirst(z)[2], "", "false")) :
            z \in {"", "Z"}}

GeminiCalendarJson ==
    /\ callPc = "call"
    /\ \E json \in CalendarResponses :
           /\ aiJson' = json
           /\ Resolve(Normalize(json, input, now, runtimeZone))
    /\ UNCHANGED <<input, now, runtimeZone, projVars, modalVars, bulkVars, extraVars>>

CalendarInit ==
    /\ callPc = "start"
    /\ input = ImageInput
    /\ now = MkDate(ClockMinutes, ClockMs)
    /\ runtimeZone \in Zones
    /\ aiJson = NoJson
    /\ result = NoResult
    /\ ModalIdle
    /\ ProjIdle
    /\ BulkIdle
    /\ ExtraIdle

CalendarNext ==
    \/ ConfigRemote
    \/ GeminiCalendarJson
    \/ OpenModal
    \/ handleSave
    \/ createCalendarEvent

SpecCalendar == CalendarInit /\ [][CalendarNext]_vars

-----------------------------------------------------------------------------
(* Two parseWithAI calls in flight at once.  The function keeps its state  *)
(* in locals (lines 44-106) and creates its regular expressions anew for   *)
(* every event (lines 710-721, 752-810); the module holds no variable.     *)

ReasonConfig == "Failed to fetch config from backend: "

\* Lines 49-63 in the second call.
PeerConfigFails ==
    /\ peerPc = "start"
    /\ peerResult' = Fallback(InputText(peerInput), now, ReasonConfig,
                              ExtractedText(peerInput))
    /\ peerPc' = "done"
    /\ UNCHANGED <<peerInput, peerText, peerJson, calRequest, callVars, projVars, modalVars,
                 bulkVars, proxyVars, limitVars>>

\* Lines 76-224 in the second call: extractedText is set (line 104) and the
\* request to /api/gemini is sent.
PeerConfigRemote ==
    /\ peerPc = "start"
    /\ peerText' = ExtractedText(peerInput)
    /\ peerPc' = "call"
    /\ UNCHANGED <<peerInput, peerJson, peerResult, calRequest, callVars, projVars, modalVars,
                 bulkVars, proxyVars, limitVars>>

\* The input as the code after the await sees it: the text is the local
\* extractedText.
Carried(in, extractedText) == IF in.kind = "text" THEN TextInput(extractedText) ELSE in

\* Variant: extractedText is a variable of the module, which both calls
\* write at line 104.
PeerGeminiJsonShared ==
    /\ peerPc = "call"
    /\ \E json \in BulkResponses :
           /\ peerJson' = json
           /\ peerResult' = Normalize(json,
                                Carried(peerInput, IF callPc \in {"call", "done"}
                                                   THEN ExtractedText(input) ELSE peerText),
                                now, runtimeZone)
    /\ peerPc' = "done"
    /\ UNCHANGED <<peerInput, peerText, calRequest, callVars, projVars, modalVars, bulkVars,
                 proxyVars, limitVars>>

\* Lines 220-991 in the second call.
PeerGeminiJson ==
    /\ peerPc = "call"
    /\ \E json \in BulkResponses :
           /\ peerJson' = json
           /\ peerResult' = Normalize(json, Carried(peerInput, peerText), now, runtimeZone)
    /\ peerPc' = "done"
    /\ UNCHANGED <<peerInput, peerText, calRequest, callVars, projVars, modalVars, bulkVars,
                 proxyVars, limitVars>>

ConcurrentInputs == {ImageInput, TextInput(TxtMeeting), TextInput(TxtAllday)}

ConcurrentInit ==
    /\ callPc = "start"
    /\ input \in ConcurrentInputs
    /\ now = MkDate(ClockMinutes, ClockMs)
    /\ runtimeZone = NewYork
    /\ aiJson = NoJson
    /\ result = NoResult
    /\ ModalIdle
    /\ ProjIdle
    /\ BulkIdle
    /\ calRequest = NoRequest
    /\ ProxyIdle
    /\ LimitIdle
    /\ peerPc = "start"
    /\ peerInput \in ConcurrentInputs
    /\ peerText = <<>>
    /\ peerJson = NoJson
    /\ peerResult = NoResult

ConcurrentNext ==
    \/ ConfigFails
    \/ ConfigRemote
    \/ GeminiBulkJson
    \/ PeerConfigFails
    \/ PeerConfigRemote
    \/ PeerGeminiJson

SpecConcurrent == ConcurrentInit /\ [][ConcurrentNext]_vars

-----------------------------------------------------------------------------
(* parseWithAI on texts with one time range, for an event in the middle of *)
(* a month and one on the first day of a month.                            *)

\* Ranges that end after their start, at their start and before it, and
\* ranges from the evening into the morning.
RolloverRanges ==
    UNION {{Written("shared", h, 0, p, h2, p) :
                h2 \in {h, (h % 12) + 1, ((h + 4) % 12) + 1}, p \in Meridiems} : h \in 1..12}
    \cup {Written("mixed", h, RangeMinutes, <<"p","m">>, h2, <<"a","m">>) :
            h \in {9, 11}, h2 \in {2, 6}}

RolloverInputs == {TextInput(Sentence(w)) : w \in RolloverRanges}

\* The AI answers 15:00 to 16:00 New York time of 2025-09-17 or 2025-10-01.
RolloverResponses ==
    {Json(<<>>, TRUE, Item(AITitle, IsoString(2025, d[1], d[2], 15, 0, 0, ""),
                           IsoString(2025, d[1], d[2], 16, 0, 0, ""), "", "false")) :
        d \in {<<9, 17>>, <<10, 1>>}}

GeminiRollover ==
    /\ callPc = "call"
    /\ \E json \in RolloverResponses :
           /\ aiJson' = json
           /\ Resolve(Normalize(json, input, now, runtimeZone))
    /\ UNCHANGED <<input, now, runtimeZone, projVars, modalVars, bulkVars, extraVars>>

RolloverInit ==
    /\ callPc = "start"
    /\ input \in RolloverInputs
    /\ now = MkDate(ClockMinutes, ClockMs)
    /\ runtimeZone \in RuntimeZones
    /\ aiJson = NoJson
    /\ result = NoResult
    /\ ModalIdle
    /\ ProjIdle
    /\ BulkIdle
    /\ ExtraIdle

RolloverNext == ConfigRemote \/ GeminiRollover

SpecRollover == RolloverInit /\ [][RolloverNext]_vars

-----------------------------------------------------------------------------
(* The Gemini proxy: the handler of /api/gemini (Vercel function           *)
(* api/gemini.js; the Express route of server.js has the same loop).       *)

endpointsToTry == <<"v1beta", "v1">>

\* Lines 90-100
modelsToTry(model) ==
    <<model, "gemini-2.5-pro", "gemini-2.0-flash", "gemini-1.5-flash", "gemini-pro",
      "gemini-2.0-pro", "gemini-1.5-pro", "gemini-2.0-flash-lite", "gemini-2.0-flash-exp">>

\* [...new Set(seq)]: the first occurrence of every element, in order.
RECURSIVE Unique(_)
Unique(seq) ==
    IF seq = <<>> THEN <<>>
    ELSE Let(Unique(SubSeq(seq, 1, Len(seq) - 1)), LAMBDA front :
             IF \E i \in 1..Len(front) : front[i] = seq[Len(seq)] THEN front
             ELSE Append(front, seq[Len(seq)]))

\* The model the client asks for: the default model, or one of the list.
RequestedModels == {"gemini-2.5-flash", "gemini-2.0-flash"}

\* The statuses of upstream answers.
UpstreamStatuses == {200, 404, 429, 401, 403, 500}

\* Lines 15-50: the request is answered without an upstream call (method
\* not POST, rate limit exceeded, no API key, invalid body).
ProxyRejects ==
    /\ proxyPc = "idle"
    /\ \E status \in {405, 429, 500, 400} : proxyReply' = status
    /\ proxyPc' = "done"
    /\ UNCHANGED <<proxyModels, proxyAt, proxyResp, proxyCalls, proxyAuthAt, calRequest,
                 peerVars, callVars, projVars, modalVars, bulkVars,
                 limitVars>>

\* Lines 52-103: the request is accepted and the loops are entered.
ProxyAccepts ==
    /\ proxyPc = "idle"
    /\ \E model \in RequestedModels : proxyModels' = Unique(modelsToTry(model))
    /\ proxyPc' = "loop"
    /\ UNCHANGED <<proxyAt, proxyResp, proxyCalls, proxyAuthAt, proxyReply, calRequest,
                 peerVars, callVars, projVars, modalVars, bulkVars,
                 limitVars>>

\* The position after the inner loop has ended at endpoint e, or the reply
\* of lines 143-167 after the last endpoint.
AfterEndpoint(e, status) ==
    IF e < Len(endpointsToTry)
    THEN /\ proxyAt' = <<e + 1, 1>>
         /\ UNCHANGED <<proxyPc, proxyReply>>
    ELSE /\ proxyReply' = status
         /\ proxyPc' = "done"
         /\ UNCHANGED proxyAt

\* Lines 105-167: one pass of the inner loop: the upstream call and what
\* follows its answer, up to the next call or the reply.
ProxyCall ==
    /\ proxyPc = "loop"
    /\ \E status \in UpstreamStatuses :
           /\ proxyResp' = status
           /\ proxyCalls' = Append(proxyCalls,
                                   <<endpointsToTry[proxyAt[1]], proxyModels[proxyAt[2]]>>)
           /\ proxyAuthAt' = IF status \in {401, 403} /\ proxyAuthAt = NoAuthError
                             THEN [call |-> Len(proxyCalls) + 1, status |-> status]
                             ELSE proxyAuthAt
           /\ IF status = 200
              THEN /\ proxyReply' = 200
                   /\ proxyPc' = "done"
                   /\ UNCHANGED proxyAt
              ELSE IF status \in {401, 403}
              THEN AfterEndpoint(proxyAt[1], status)
              ELSE IF proxyAt[2] < Len(proxyModels)
              THEN /\ proxyAt' = <<proxyAt[1], proxyAt[2] + 1>>
                   /\ UNCHANGED <<proxyPc, proxyReply>>
              ELSE AfterEndpoint(proxyAt[1], status)
    /\ UNCHANGED <<proxyModels, calRequest, peerVars, callVars, projVars, modalVars, bulkVars,
                 limitVars>>

ProxyInit ==
    /\ CallIdle
    /\ ModalIdle
    /\ ProjIdle
    /\ BulkIdle
    /\ ExtraIdle

ProxyNext == ProxyRejects \/ ProxyAccepts \/ ProxyCall

SpecProxy == ProxyInit /\ [][ProxyNext]_vars

-----------------------------------------------------------------------------
(* The rate limiter (api/utils/rateLimit.js; createRateLimiter of the      *)
(* Express server has the same logic) for the requests of one key.         *)

\* api/gemini.js lines 20-21
windowMs == 60 * 1000
maxRequests == 10

\* The clock advances in steps of a third of the window, MaxTicks times.
TickMs == windowMs \div 3
MaxTicks == 12

\* Math.ceil(a / b) for b > 0
CeilDiv(a, b) == -((-a) \div b)

Tick ==
    /\ limitClock < MaxTicks * TickMs
    /\ limitClock' = limitClock + TickMs
    /\ UNCHANGED <<limitRecord, limitReply, calRequest, peerVars, proxyVars, callVars,
                 projVars, modalVars, bulkVars>>

\* Lines 6-14: the cleanup timer fires.
Cleanup ==
    /\ limitRecord.present
    /\ limitRecord.expiresAt < limitClock
    /\ limitRecord' = NoRecord
    /\ UNCHANGED <<limitClock, limitReply, calRequest, peerVars, proxyVars, callVars,
                 projVars, modalVars, bulkVars>>

\* Lines 16-83: rateLimitMiddleware(options)(req, res) for a request of the
\* key; status 200 stands for "continue processing".
RateLimitRequest ==
    /\ IF ~limitRecord.present \/ limitRecord.expiresAt < limitClock
       THEN /\ limitRecord' = [present |-> TRUE, count |-> 1,
                               resetAt |-> limitClock + windowMs,
                               expiresAt |-> limitClock + windowMs + 60 * 1000]
            /\ limitReply' = [status |-> 200, remaining |-> maxRequests - 1,
                              resetAt |-> limitClock + windowMs, retryAfter |-> 0]
       ELSE IF limitRecord.count >= maxRequests
       THEN /\ limitReply' = [status |-> 429, remaining |-> 0,
                              resetAt |-> limitRecord.resetAt,
                              retryAfter |-> CeilDiv(limitRecord.resetAt - limitClock, 1000)]
            /\ UNCHANGED limitRecord
       ELSE /\ limitRecord' = [limitRecord EXCEPT !.count = @ + 1]
            /\ limitReply' = [status |-> 200,
                              remaining |-> maxRequests - (limitRecord.count + 1),
                              resetAt |-> limitRecord.resetAt, retryAfter |-> 0]
    /\ UNCHANGED <<limitClock, calRequest, peerVars, proxyVars, callVars, projVars, modalVars,
                 bulkVars>>

LimitInit ==
    /\ CallIdle
    /\ ModalIdle
    /\ ProjIdle
    /\ BulkIdle
    /\ ExtraIdle

LimitNext == Tick \/ Cleanup \/ RateLimitRequest

SpecLimit == LimitInit /\ [][LimitNext]_vars

-----------------------------------------------------------------------------
(* Properties of parseWithAI and of the edit modal.                        *)

\* parseWithAI has resolved.
Done == callPc = "done"

\* The raw text the post-processing of the call works on.
RawText == RawTextOf(aiJson, input)

\* The call returned the AI's event, post-processed against a raw text.
Processed == Done /\ result.method = "gemini" /\ RawText # <<>>

\* A valid ISO-8601 UTC timestamp ending in 'Z'.
IsUtcIso(str) ==
    /\ str.kind = "iso"
    /\ str.zone = "Z"
    /\ IsoFieldsValid(str.year, str.month, str.day, str.hour, str.minute)
    /\ str.second \in 0..59

\* The instant of a timestamp that carries a zone designator, and its
\* wall-clock reading in America/New_York.
Instant(str) == NewDate(str, UTCZone)
Reading(str) == FormatToParts(Instant(str), NewYork)

\* Minutes from the instant of a to the instant of b.
MinutesBetween(a, b) == Instant(b).t - Instant(a).t

\* The UTC timestamp of the wall-clock reading y-m-d h:mi in America/New_York.
NewYorkTime(y, m, d, h, mi) ==
    toISOString(MkDate(LocalToUtc(NewYork, UtcMinutes(y, m, d, h, mi)), 0))

\* C2: every event of a returned ParseResult has endISO chronologically
\* greater than or equal to startISO (stated for the events whose two
\* timestamps denote instants).
C2_EndNotBeforeStart ==
    Done => \A i \in 1..Len(result.events) :
                LET start == NewDate(result.events[i].startISO, runtimeZone)
                    end   == NewDate(result.events[i].endISO, runtimeZone)
                IN  (start.valid /\ end.valid) => DateLeq(start, end)

\* C3: every startISO and endISO of a returned ParseResult is a valid
\* ISO-8601 UTC timestamp ending in 'Z'.
C3_UtcTimestamps ==
    Done => \A i \in 1..Len(result.events) :
                /\ IsUtcIso(result.events[i].startISO)
                /\ IsUtcIso(result.events[i].endISO)

\* The AI response holds no usable event: no event object, a start or end
\* that is missing or is no string.
Unusable(json) ==
    \/ ~json.hasEvent
    \/ json.item.startISO.kind \in {"none", "number"}
    \/ json.item.endISO.kind \in {"none", "number"}

\* C4: whenever the AI step fails (no JSON response was obtained, the JSON
\* holds no usable event, or the normalization did not return the AI's
\* event), parseWithAI resolves with method 'fallback', exactly one event and
\* a non-empty reason.
C4_FailureFallsBack ==
    (Done /\ (aiJson = NoJson \/ Unusable(aiJson) \/ result.method # "gemini")) =>
        /\ result.method = "fallback"
        /\ Len(result.events) = 1
        /\ result.reason # ""

\* An exception during normalization (a start that is no date-time, under a
\* raw text without a year) ended in the fallback.
C4_Witness ==
    /\ Done
    /\ aiJson.hasEvent
    /\ aiJson.item.startISO.kind = "text"
    /\ RawText = TxtSept17
    /\ result.method = "fallback"
    /\ Len(result.events) = 1

\* C5: editing only the title in the edit modal and saving gives an event
\* whose startISO and endISO are identical to those of the event before the
\* edit.
C5_TitleEditKeepsTimes ==
    (saved.called /\ editedEvent.title = NewTitle) =>
        /\ saved.event.startISO = mEvent.startISO
        /\ saved.event.endISO = mEvent.endISO

\* C6: a raw text with a range whose ends carry their own meridiem and
\* whose end is earlier than its start ('10pm-2am', '8pm-1am' with an en
\* dash) gives an event that starts at the extracted start time and ends at
\* the extracted end time, the duration positive and under 24 hours.
C6_OvernightRange ==
    (Processed /\ RawText \in {TxtLateParty, TxtGala}
               /\ aiJson.item.startISO.kind = "iso") =>
        LET ev        == result.events[1]
            startHour == IF RawText = TxtLateParty THEN 22 ELSE 20
            endHour   == IF RawText = TxtLateParty THEN 2 ELSE 1
        IN  /\ IsUtcIso(ev.startISO) /\ IsUtcIso(ev.endISO)
            /\ Reading(ev.startISO).hour = startHour /\ Reading(ev.startISO).minute = 0
            /\ Reading(ev.endISO).hour = endHour /\ Reading(ev.endISO).minute = 0
            /\ MinutesBetween(ev.startISO, ev.endISO) > 0
            /\ MinutesBetween(ev.startISO, ev.endISO) < MinutesPerDay

\* C7: for the raw text 'September 17th CC 6pm - 9pm' and an AI start on
\* September 17 in America/New_York, whatever its time of day, the event is
\* 18:00 to 21:00 New York time on September 17 of the current year.
C7_RangeOnLocalDate ==
    (Done /\ RawText = TxtSept17
          /\ aiJson.hasEvent
          /\ aiJson.item.startISO.kind = "iso" /\ aiJson.item.startISO.zone = ""
          /\ aiJson.item.timezone = ""
          /\ aiJson.item.startISO.month = 9 /\ aiJson.item.startISO.day = 17) =>
        /\ result.method = "gemini"
        /\ result.events[1].startISO = NewYorkTime(getFullYear(now, runtimeZone), 9, 17, 18, 0)
        /\ result.events[1].endISO = NewYorkTime(getFullYear(now, runtimeZone), 9, 17, 21, 0)

\* C8: an event with allDay = true starts at 00:00 and ends at 23:59 New
\* York time of one calendar date, and a time range in the raw text changes
\* neither (stated for the raw texts that hold an all-day phrase and an AI
\* start in the middle of a month).
C8_AllDayTimes ==
    (Processed /\ hasAllDayText(RawText) /\ result.events[1].allDay = "true"
               /\ aiJson.item.startISO.day = 17
               /\ IsUtcIso(result.events[1].startISO) /\ IsUtcIso(result.events[1].endISO)) =>
        LET start == Reading(result.events[1].startISO)
            end   == Reading(result.events[1].endISO)
        IN  /\ start.hour = 0 /\ start.minute = 0
            /\ end.hour = 23 /\ end.minute = 59
            /\ <<end.year, end.month, end.day>> = <<start.year, start.month, start.day>>

\* word (lower case) stands in text at position i, in any case.
StandsAt(text, i, word) ==
    /\ i >= 1
    /\ i + Len(word) - 1 <= Len(text)
    /\ \A k \in 1..Len(word) : Lower(text[i + k - 1]) = word[k]

\* text contains word.
Contains(text, word) == \E i \in 1..Len(text) : StandsAt(text, i, word)

\* text contains first, then any run of whitespace (none included), then second.
ContainsPair(text, first, second) ==
    \E i \in 1..Len(text) : \E j \in (i + Len(first))..Len(text) :
        /\ StandsAt(text, i, first)
        /\ \A k \in (i + Len(first))..(j - 1) : IsSpace(text[k])
        /\ StandsAt(text, j, second)

\* The all-day phrases as they are listed: 'all day', 'all-day', 'full day',
\* 'entire day', 'whole day'.
ListedPhrase(text) ==
    \/ Contains(text, <<"a","l","l"," ","d","a","y">>)
    \/ Contains(text, <<"a","l","l","-","d","a","y">>)
    \/ Contains(text, <<"f","u","l","l"," ","d","a","y">>)
    \/ Contains(text, <<"e","n","t","i","r","e"," ","d","a","y">>)
    \/ Contains(text, <<"w","h","o","l","e"," ","d","a","y">>)

\* The same phrases, their two words separated by any run of whitespace,
\* none included ('allday', 'full  day').
SpacedPhrase(text) ==
    \/ ContainsPair(text, <<"a","l","l">>, <<"d","a","y">>)
    \/ Contains(text, <<"a","l","l","-","d","a","y">>)
    \/ ContainsPair(text, <<"f","u","l","l">>, <<"d","a","y">>)
    \/ ContainsPair(text, <<"e","n","t","i","r","e">>, <<"d","a","y">>)
    \/ ContainsPair(text, <<"w","h","o","l","e">>, <<"d","a","y">>)

\* A time-of-day expression: a digit, optional whitespace, then am, pm or :MM.
TimeExpression(text) ==
    \E i \in 1..Len(text) : \E j \in (i + 1)..Len(text) :
        /\ IsDigit(text[i])
        /\ \A k \in (i + 1)..(j - 1) : IsSpace(text[k])
        /\ \/ StandsAt(text, j, <<"a","m">>)
           \/ StandsAt(text, j, <<"p","m">>)
           \/ /\ text[j] = ":"
              /\ j + 2 <= Len(text)
              /\ IsDigit(text[j + 1]) /\ IsDigit(text[j + 2])

\* The allDay flag of the output for the AI's flag and the text, phrase
\* telling whether the text holds an all-day phrase.
Classified(aiFlag, phrase, text) ==
    IF phrase \/ (~TimeExpression(text) /\ aiFlag # "true") THEN "true" ELSE aiFlag

\* C9: the output event is all-day if the raw text contains an all-day
\* phrase (the two words of 'all day', 'full day', 'entire day', 'whole day'
\* separated by any run of whitespace, none included, or 'all-day'; any
\* case), or if the raw text holds no time-of-day expression and the AI did
\* not mark the event all-day; otherwise the AI's flag is kept.
C9_AllDayClassification ==
    Processed =>
        result.events[1].allDay =
            Classified(aiJson.item.allDay, SpacedPhrase(RawText), RawText)

\* 'Allday sale 6pm 2025' with the AI's flag false was made all-day.
C9_Witness ==
    /\ Processed
    /\ RawText = TxtAllday
    /\ aiJson.item.allDay = "false"
    /\ result.events[1].allDay = "true"

\* C9 as stated, the all-day phrases being exactly 'all day', 'all-day',
\* 'full day', 'entire day' and 'whole day': text with a time expression
\* and none of these phrases is not reclassified.
C9_ListedPhrases ==
    Processed =>
        result.events[1].allDay =
            Classified(aiJson.item.allDay, ListedPhrase(RawText), RawText)

\* The AI's timestamps name absolute instants the conversion leaves alone: a
\* numeric offset, or 'Z' with a timezone other than America/New_York.
AbsoluteTimes(json) ==
    /\ json.item.startISO.kind = "iso"
    /\ \/ json.item.startISO.zone \in OffsetSuffixes
       \/ json.item.startISO.zone = "Z" /\ json.item.timezone = LosAngeles

\* C10: under a raw text without a year token ('Event 6pm') the start is
\* re-derived in the current year with the same month, day, hour and minute
\* in America/New_York and the same duration; under a raw text with a year
\* token ('Meeting 6pm 2025') startISO and endISO are not changed.  (Both
\* texts hold a time and no range, so the later steps change nothing.)
C10_YearInference ==
    (Processed /\ AbsoluteTimes(aiJson) /\ RawText \in {TxtEvent6pm, TxtMeeting}) =>
        LET ev == result.events[1]
            ai == aiJson.item
        IN  IF RawText = TxtMeeting
            THEN ev.startISO = ai.startISO /\ ev.endISO = ai.endISO
            ELSE /\ IsUtcIso(ev.startISO) /\ IsUtcIso(ev.endISO)
                 /\ Reading(ev.startISO).year = getFullYear(now, runtimeZone)
                 /\ Reading(ev.startISO).month = Reading(ai.startISO).month
                 /\ Reading(ev.startISO).day = Reading(ai.startISO).day
                 /\ Reading(ev.startISO).hour = Reading(ai.startISO).hour
                 /\ Reading(ev.startISO).minute = Reading(ai.startISO).minute
                 /\ MinutesBetween(ev.startISO, ev.endISO)
                        = MinutesBetween(ai.startISO, ai.endISO)

\* The times of the first pattern of timePatterns, from pattern k on, that
\* matches the text.
RECURSIVE FirstMatch(_, _)
FirstMatch(k, text) ==
    IF k > Len(timePatterns) THEN NoTimes
    ELSE Let(Search(timePatterns[k].regex, text), LAMBDA match :
             IF ~match.ok THEN FirstMatch(k + 1, text)
             ELSE Let(ExtractTimes(timePatterns[k], MatchedText(text, match)), LAMBDA times :
                      IF times.ok THEN times ELSE FirstMatch(k + 1, text)))

\* The New York wall-clock times <<start hour, start minute, end hour, end
\* minute>> of the event returned.
ResultTimes ==
    <<Reading(result.events[1].startISO).hour, Reading(result.events[1].startISO).minute,
      Reading(result.events[1].endISO).hour, Reading(result.events[1].endISO).minute>>

\* C11: when the raw text matches more than one range pattern, the times
\* applied to the event are those of the first pattern of the priority
\* order that matches; no later pattern is applied after a match.
C11_FirstPatternWins ==
    (Processed /\ FirstMatch(1, RawText).ok)
        => LET times == FirstMatch(1, RawText)
           IN  ResultTimes = <<times.startHour, times.startMin, times.endHour, times.endMin>>

\* The hour N of a 12-hour clock with its meridiem, on the 24-hour clock.
Hour24(n, meridiem) ==
    IF Lower(meridiem[1]) = "p" THEN (IF n = 12 THEN 12 ELSE n + 12)
    ELSE (IF n = 12 THEN 0 ELSE n)

\* C12: for every hour N in 1..12 and both meridiems the range extraction
\* gives 12 for 12pm, 0 for 12am, N+12 for Npm and N for Nam, at both ends
\* of the range, a shared meridiem applying to both ends.
C12_HourConversion ==
    \A w \in SingleRanges :
        (Done /\ input = TextInput(Sentence(w)) /\ (w.form \in SharedForms => w.p1 = w.p2))
            => /\ result.method = "gemini"
               /\ ResultTimes = <<Hour24(w.h1, IF w.form \in SharedForms THEN w.p2 ELSE w.p1),
                                  w.m1, Hour24(w.h2, w.p2), 0>>

\* The timestamp of the AI response as the conversion stage (lines 397-519)
\* leaves it.
Converted(iso) ==
    ConvertTimestamp(iso, IF aiJson.item.timezone # "" THEN aiJson.item.timezone ELSE NewYork,
                     runtimeZone)

\* No pattern of timePatterns matches the text.
NoRangeIn(text) == ~FirstMatch(1, text).ok

\* The text names a year, is not classified all-day and holds no range.
NoMatchCase ==
    /\ Processed
    /\ Test(YearRegex, RawText)
    /\ ~hasAllDayText(RawText) /\ hasTimeInText(RawText) /\ aiJson.item.allDay # "true"
    /\ NoRangeIn(RawText)

\* C13: when no range pattern matches the raw text, the event is not
\* all-day and the text names a year, startISO and endISO stay exactly the
\* instants derived from the times the AI proposed.
C13_NoMatchKeepsTimes ==
    NoMatchCase
        => /\ Instant(result.events[1].startISO) = Instant(Converted(aiJson.item.startISO))
           /\ Instant(result.events[1].endISO) = Instant(Converted(aiJson.item.endISO))

C13_Witness ==
    /\ NoMatchCase
    /\ input = TextInput(Sentence(Written("each", 4, 0, <<"a","m">>, 5, <<"P","M">>)))
    /\ Reading(result.events[1].startISO).hour = 15
    /\ Reading(result.events[1].endISO).hour = 16

\* The timezone assumed for the AI's timestamps (lines 385-391).
SourceTimezone == IF aiJson.item.timezone # "" THEN aiJson.item.timezone ELSE NewYork

\* The instant (minutes since the epoch) of the digits of str read as
\* wall-clock time in zone tz.
WallClock(str, tz) ==
    LocalToUtc(tz, UtcMinutes(str.year, str.month, str.day, str.hour, str.minute))

\* The later steps leave the event alone: no raw text, or one with a year, a
\* time and no range.
Untouched == RawText \in {<<>>, TxtMeeting}

\* C14: when the AI timestamp ends in 'Z' and the assumed source timezone
\* is not UTC (America/New_York by default, or the zone the AI reported,
\* such as America/Los_Angeles), the 'Z' is dropped and the digits are
\* converted as local wall-clock time in that zone.  (Stated for the days
\* in the middle of a month, where the conversion of C1 is right.)
C14_MislabelledUtc ==
    (Done /\ result.method = "gemini" /\ Untouched
          /\ EndsWithZ(aiJson.item.startISO) /\ EndsWithZ(aiJson.item.endISO)
          /\ aiJson.item.startISO.day = 17 /\ SourceTimezone # UTCZone)
        => /\ Instant(result.events[1].startISO).t
                  = WallClock(aiJson.item.startISO, SourceTimezone)
           /\ Instant(result.events[1].endISO).t
                  = WallClock(aiJson.item.endISO, SourceTimezone)

\* The first non-empty of the start fields of an event object as written,
\* the dateTime of a nested start included; likewise for the end.
StartWritten(raw) ==
    IF raw.startISO # NoString THEN raw.startISO
    ELSE IF raw.start # NoString THEN [raw.start EXCEPT !.kind = "iso"]
    ELSE IF raw.startTime # NoString THEN raw.startTime
    ELSE raw.startDate

EndWritten(raw) ==
    IF raw.endISO # NoString THEN raw.endISO
    ELSE IF raw.end # NoString THEN [raw.end EXCEPT !.kind = "iso"]
    ELSE IF raw.endTime # NoString THEN raw.endTime
    ELSE raw.endDate

\* The response holds exactly the event raw under `event`.
Answered(raw) == Done /\ aiJson = Response(<<>>, "event", <<raw>>)

\* The event is returned on the AI path with the times of start and end
\* read as wall-clock times in zone tz.
NormalizedAs(start, end, tz) ==
    /\ result.method = "gemini"
    /\ Len(result.events) = 1
    /\ Instant(result.events[1].startISO).t = WallClock(start, tz)
    /\ Instant(result.events[1].endISO).t = WallClock(end, tz)

\* C15: the start timestamp is taken from the first non-empty of startISO,
\* start, startTime, startDate (the end likewise), and an event that gives
\* its times only as start.dateTime / end.dateTime is accepted and
\* normalized with method 'gemini', not sent to the fallback.
C15_StartFieldResolution ==
    \A raw \in FieldItems \cup NestedItems :
        Answered(raw)
            => NormalizedAs(StartWritten(raw), EndWritten(raw),
                            IF raw.startTimeZone # "" THEN raw.startTimeZone ELSE NewYork)

\* item.timezone || item.tz of an event object as written
ZoneWritten(raw) == IF raw.timezone # "" THEN raw.timezone ELSE raw.tz

\* C16: when the AI reports a timezone name the platform does not
\* recognize, the conversion failure is caught and the timestamp is
\* converted as wall-clock time in America/New_York, not in the zone of
\* the runtime and not as UTC; the normalization does not abort.
C16_UnknownTimezone ==
    \A raw \in ZoneItems :
        (Answered(raw) /\ ZoneWritten(raw) = UnknownZone)
            => NormalizedAs(raw.startISO, raw.endISO, NewYork)

\* The valid events of an array of event objects, in order.
IsValidItem(raw) == raw \in ValidItems
ValidOf(events) == SelectSeq(events, IsValidItem)

\* C17: for an AI response holding several events, an event that fails
\* validation is dropped alone and every valid sibling is returned with
\* method 'gemini'; the fallback is used only when no event of the
\* response is valid.
C17_InvalidEventDroppedAlone ==
    (Done /\ aiJson.shape = "events" /\ Len(aiJson.events) > 0)
        => LET valid == ValidOf(aiJson.events)
           IN  IF valid = <<>> THEN result.method = "fallback"
               ELSE /\ result.method = "gemini"
                    /\ Len(result.events) = Len(valid)
                    /\ \A i \in 1..Len(valid) :
                          /\ result.events[i].title = valid[i].title
                          /\ Instant(result.events[i].startISO).t
                                 = WallClock(valid[i].startISO, NewYork)
                          /\ Instant(result.events[i].endISO).t
                                 = WallClock(valid[i].endISO, NewYork)

\* The text handed to fallbackHeuristic: the input text, 'Image input' for
\* an image (with a note in local mode).
HeuristicText ==
    IF input.kind = "text" THEN input.text
    ELSE IF result.reason = "AI_PARSE_MODE is set to \"local\"" THEN TxtImageLocal
    ELSE TxtImageInput

\* pre is the text cut to n characters.
CutTo(pre, text, n) ==
    /\ Len(pre) = (IF Len(text) < n THEN Len(text) ELSE n)
    /\ \A i \in 1..Len(pre) : pre[i] = text[i]

\* line is the first line of the text.
IsFirstLine(line, text) ==
    /\ Len(line) <= Len(text)
    /\ \A i \in 1..Len(line) : line[i] = text[i] /\ line[i] # "\n"
    /\ Len(line) < Len(text) => text[Len(line) + 1] = "\n"

\* C18: the fallback heuristic returns exactly one event: title = first
\* line of the input cut to 60 characters, or 'Untitled Event' when that is
\* empty; description = first 500 characters of the input; start = moment
\* of invocation + 1 hour; end = start + 1 hour; no correction pass is
\* applied to it, whatever times the input text holds.
C18_FallbackHeuristic ==
    (Done /\ result.method = "fallback")
        => /\ Len(result.events) = 1
           /\ LET ev == result.events[1]
              IN  /\ \/ IsFirstLine(<<>>, HeuristicText) /\ ev.title = Untitled
                     \/ /\ ev.title # <<>>
                        /\ \E n \in 1..Len(HeuristicText) :
                              /\ IsFirstLine(SubSeq(HeuristicText, 1, n), HeuristicText)
                              /\ CutTo(ev.title, SubSeq(HeuristicText, 1, n), 60)
                  /\ CutTo(ev.description, HeuristicText, 500)
                  /\ Instant(ev.startISO) = AddMinutes(now, 60)
                  /\ Instant(ev.endISO) = AddMinutes(now, 120)
                  /\ ev.startISO.zone = "Z" /\ ev.endISO.zone = "Z"

C18_Witness ==
    /\ Done /\ result.method = "fallback"
    /\ Len(input.text) > 500
    /\ Len(result.events[1].title) = 60
    /\ Len(result.events[1].description) = 500
    /\ result.events[1].startISO = toISOString(AddMinutes(now, 60))

\* The title is empty after trimming whitespace.
BlankAfterTrim(title) == \A i \in 1..Len(title) : title[i] \in {" ", "\n", "\t"}

\* C19: every event of a returned ParseResult has a title that is
\* non-empty after trimming whitespace, on the AI path (for any AI title)
\* and on the fallback path (for any input).
C19_TitleNotBlank ==
    Done => \A i \in 1..Len(result.events) : ~BlankAfterTrim(result.events[i].title)

\* The events of the results whose extraction succeeded, in order.
RECURSIVE EventsOfSucceeded(_)
EventsOfSucceeded(results) ==
    IF results = <<>> THEN <<>>
    ELSE (IF Head(results).method = "gemini" THEN Head(results).events ELSE <<>>)
         \o EventsOfSucceeded(Tail(results))

\* C20: in a batch upload, when the extraction of one image fails (AI
\* service error or unusable response), that image contributes zero events
\* to the collected event list and every remaining image is still
\* processed.
C20_FailedImageContributesNothing ==
    bulkPc = "done"
        => /\ Len(allParseResults) = bulkFiles
           /\ allEvents = EventsOfSucceeded(allParseResults)

\* The events of all the results, in order.
RECURSIVE EventsOf(_)
EventsOf(results) ==
    IF results = <<>> THEN <<>> ELSE Head(results).events \o EventsOf(Tail(results))

\* A call of parseWithAI is under way.
InFlight == callPc \in {"start", "call", "done"}

\* C21: the images of a batch are processed strictly one at a time in
\* input order: the request for image i+1 is issued only when the results
\* of the images 1..i have been normalized and collected (and no call is
\* under way), and the collected events keep the order of the images.
C21_SequentialBatch ==
    /\ [](/\ Len(allParseResults) = bulkIndex
          /\ InFlight => (bulkPc = "await" /\ bulkIndex < bulkFiles)
          /\ allEvents = EventsOf(allParseResults))
    /\ [][callPc' = "start"
            => (~InFlight /\ Len(allParseResults) = bulkIndex /\ bulkIndex' = bulkIndex)]_vars

C21_Witness ==
    /\ bulkPc = "done"
    /\ bulkFiles = 2
    /\ allParseResults[1].method = "fallback"
    /\ allParseResults[2].method = "gemini"
    /\ Len(allEvents) = 2
    /\ allEvents[1].title = TxtImageInput
    /\ allEvents[2].title \in {AITitle, AIName}

\* C22: in the edit modal, after any sequence of display-timezone inputs,
\* the display timezone is a timezone name the platform accepts: an
\* unrecognized name is rejected and the previous value kept, an empty
\* input resets it to America/New_York, and no input raises an error.
C22_DisplayTimezoneValid ==
    /\ [](displayTimezone \in Zones /\ ~tzInput.raised)
    /\ [][handleTimezoneChange
            => LET newTz == Trim(tzInput'.value)
               IN  /\ newTz = "" => displayTimezone' = NewYork
                   /\ (newTz # "" /\ newTz \notin Zones) => displayTimezone' = displayTimezone
                   /\ newTz \in Zones => displayTimezone' = newTz]_vars

C22_Witness ==
    /\ mOpen
    /\ displayTimezone = Tokyo
    /\ tzInput.value = Typed("Mars/Phobos", TRUE)
    /\ mForm.startTime.hours = 7

-----------------------------------------------------------------------------
\* The number of places of the description at which the text stands.
Occurrences(description, text) ==
    Cardinality({i \in 0..(Len(description) - Len(text)) :
                    \A j \in 1..Len(text) : description[i + j] = text[j]})

\* The hashtags the flags of the AI's item call for.
ExpectedTags(raw) ==
    (IF raw.hasFreeFood \in {"true", "'true'"} THEN <<TagFreeFood>> ELSE <<>>)
    \o (IF raw.registrationNeeded \in {"true", "'true'"} THEN <<TagNeeded>>
        ELSE IF raw.registrationNeeded \in {"null", "undefined"} THEN <<TagNotMentioned>>
        ELSE <<>>)

Tagged == Done /\ aiJson.shape = "event" /\ result.method = "gemini" /\ RawText # <<>>

\* C23: with a raw text, the description of a normalized event is its
\* hashtags joined by blanks, a blank line, and the raw text (the raw text
\* alone when no hashtag applies); the raw text stands in it exactly once;
\* '#Free Food' is there iff hasFreeFood is true, '#Registration Needed' iff
\* registrationNeeded is true, '#Registration Not Mentioned' iff
\* registrationNeeded is null or absent, and no registration tag when it is
\* false.
C23_Description ==
    Tagged =>
        LET raw == aiJson.events[1]
            tags == ExpectedTags(raw)
            d == result.events[1].description
        IN  /\ d = (IF tags = <<>> THEN <<>> ELSE JoinTags(tags) \o <<"\n","\n">>) \o RawText
            /\ Occurrences(d, RawText) = 1
            /\ Includes(d, TagFreeFood) <=> raw.hasFreeFood \in {"true", "'true'"}
            /\ Includes(d, TagNeeded) <=> raw.registrationNeeded \in {"true", "'true'"}
            /\ Includes(d, TagNotMentioned) <=> raw.registrationNeeded \in {"null", "undefined"}
            /\ raw.registrationNeeded = "false"
                 => ~Includes(d, TagNeeded) /\ ~Includes(d, TagNotMentioned)

C23_Witness ==
    /\ Tagged
    /\ aiJson.events[1].hasFreeFood = "true"
    /\ aiJson.events[1].registrationNeeded = "undefined"
    /\ aiJson.events[1].description = AIDescription
    /\ result.events[1].description
         = TagFreeFood \o <<" ">> \o TagNotMentioned \o <<"\n","\n">> \o TxtImageInput
-----------------------------------------------------------------------------
\* C24: the timezone field of a normalized event names the zone that was
\* used to interpret the wall-clock time of the source: when the AI reports
\* a valid zone other than America/New_York and the timestamps are converted
\* as wall-clock times in that zone, the timezone of the returned event is
\* that zone.
C24_TimezoneNamesZoneUsed ==
    \A raw \in ZoneItems :
        (/\ Answered(raw)
         /\ ZoneWritten(raw) \in Zones \ {NewYork}
         /\ NormalizedAs(raw.startISO, raw.endISO, ZoneWritten(raw)))
            => result.events[1].timezone = ZoneWritten(raw)
-----------------------------------------------------------------------------
\* The event covers the local date of its start in America/New_York: it
\* starts at 00:00 and ends at 23:59 of that date.
CoversLocalDate(event) ==
    /\ event.allDay = "true"
    /\ Reading(event.startISO).hour = 0 /\ Reading(event.startISO).minute = 0
    /\ Reading(event.endISO).hour = 23 /\ Reading(event.endISO).minute = 59
    /\ LocalDateStr(Instant(event.startISO), NewYork)
         = LocalDateStr(Instant(event.endISO), NewYork)

\* The day after a date.
NextDate(date) ==
    Let(CivilFromDays(DaysFromCivil(date.year, date.month, date.day) + 1), LAMBDA c :
        [year |-> c.year, month |-> c.month, day |-> c.day])

\* C25: for an all-day event covering local date D in America/New_York,
\* createCalendarEvent sends start.date = D and end.date = D + 1 day,
\* whatever the timezone of the runtime; a timed event is sent with its
\* startISO and endISO.
C25_CalendarDates ==
    calRequest.sent =>
        /\ CoversLocalDate(CalendarEvent)
             => LET D == LocalDateStr(Instant(CalendarEvent.startISO), NewYork)
                IN  /\ calRequest.body.allDay
                    /\ calRequest.body.startDate = D
                    /\ calRequest.body.endDate = NextDate(D)
        /\ CalendarEvent.allDay # "true"
             => /\ ~calRequest.body.allDay
                /\ calRequest.body.startDateTime = CalendarEvent.startISO
                /\ calRequest.body.endDateTime = CalendarEvent.endISO
-----------------------------------------------------------------------------
\* The result of a call run alone at clock time `clock`: on input `in`, with
\* the config request failing or the AI answering `json`.
AloneResult(in, json, configFailed, clock, zone) ==
    IF configFailed
    THEN Fallback(InputText(in), clock, ReasonConfig, ExtractedText(in))
    ELSE Normalize(json, in, clock, zone)

-----------------------------------------------------------------------------
\* The times of the patterns of timePatterns, from pattern k on, that match
\* the text, in the order in which the loop hands them to
\* createDateFromTimezone (lines 953-959).
RECURSIVE TimesHanded(_, _)
TimesHanded(k, text) ==
    IF k > Len(timePatterns) THEN <<>>
    ELSE Let(Search(timePatterns[k].regex, text), LAMBDA match :
             IF ~match.ok THEN TimesHanded(k + 1, text)
             ELSE Let(ExtractTimes(timePatterns[k], MatchedText(text, match)), LAMBDA times :
                      IF times.ok THEN <<times>> \o TimesHanded(k + 1, text)
                      ELSE TimesHanded(k + 1, text)))

OnTheClock(times) ==
    /\ times.startHour \in 0..(HoursPerDay - 1) /\ times.endHour \in 0..(HoursPerDay - 1)
    /\ times.startMin \in 0..(MinutesPerHour - 1) /\ times.endMin \in 0..(MinutesPerHour - 1)

\* C27: every time range the extractor applies has start and end hours in
\* 0..23 and minutes in 0..59, for every text that matches a pattern, and
\* the event is returned with these times on the AI path.
C27_RangeOnTheClock ==
    (Done /\ aiJson.hasEvent /\ TimesHanded(1, RawText) # <<>>)
        => /\ \A i \in 1..Len(TimesHanded(1, RawText)) : OnTheClock(TimesHanded(1, RawText)[i])
           /\ result.method = "gemini"
-----------------------------------------------------------------------------
\* A range of the raw text was applied to the event returned.
RangeApplied == Processed /\ FirstMatch(1, RawText).ok

\* C28: after a time range is applied, endISO is strictly later than
\* startISO and at most 24 hours later, for every date (the first day of a
\* month included) and every extracted range; when the extracted end is not
\* after the extracted start, the end is the extracted end time one
\* calendar day after the date of the start.
C28_EndWithinADay ==
    RangeApplied =>
        LET ev == result.events[1]
            times == FirstMatch(1, RawText)
        IN  /\ MinutesBetween(ev.startISO, ev.endISO) > 0
            /\ MinutesBetween(ev.startISO, ev.endISO) <= MinutesPerDay
            /\ (times.endHour * MinutesPerHour + times.endMin
                  <= times.startHour * MinutesPerHour + times.startMin)
                 => /\ Reading(ev.endISO).hour = times.endHour
                    /\ Reading(ev.endISO).minute = times.endMin
                    /\ LocalDateStr(Instant(ev.endISO), NewYork)
                         = NextDate(LocalDateStr(Instant(ev.startISO), NewYork))

\* The same for an event in the middle of a month.
C28_MidMonth == aiJson.item.startISO.day = 17 => C28_EndWithinADay
-----------------------------------------------------------------------------
\* C29: in the Gemini proxy, once an upstream call answers 401 or 403 no
\* further upstream call is made for the request and that status is
\* returned to the client; the proxy makes at most one call per (endpoint,
\* model) pair and stops at the first OK answer.
C29_ProxyStops ==
    /\ proxyAuthAt # NoAuthError
         => /\ Len(proxyCalls) = proxyAuthAt.call
            /\ proxyPc = "done" => proxyReply = proxyAuthAt.status
    /\ \A i, j \in 1..Len(proxyCalls) : proxyCalls[i] = proxyCalls[j] => i = j
    /\ proxyResp = 200 => (proxyPc = "done" /\ proxyReply = 200)

\* The part of C29 that does not concern authentication errors.
C29_OneCallPerPair ==
    /\ \A i, j \in 1..Len(proxyCalls) : proxyCalls[i] = proxyCalls[j] => i = j
    /\ proxyResp = 200 => (proxyPc = "done" /\ proxyReply = 200)
-----------------------------------------------------------------------------
\* C30: a key that was rejected with 429 is allowed again on its first
\* request after the reset time announced with the rejection, and the
\* announced retryAfter is never negative.
C30_AllowedAfterReset ==
    /\ [](limitReply.retryAfter >= 0)
    /\ [][(/\ RateLimitRequest
           /\ limitReply.status = 429
           /\ limitClock > limitReply.resetAt)
             => limitReply'.status = 200]_vars
=============================================================================
